---- MODULE Spec2Model ----
(***************************************************************************)
(* A model of the code-review pipeline (wangyue6761/CodeReview): the       *)
(* LangGraph driver, its four stage nodes, the expert tool-calling         *)
(* runtime and the verdict parser.                                         *)
(*                                                                         *)
(* Numbers: a confidence or a threshold is an integer number of tenths     *)
(* (ConfOne = 10 stands for 1.0), so that every comparison the code makes  *)
(* on floats is made here on exact integers.                               *)
(***************************************************************************)
EXTENDS Integers, Sequences, FiniteSets, TLC

VARIABLES
    \* ---- RunState (core/state.py ReviewState) and the driver's position
    stage,              \* the graph node that runs next, "END" or "error"
    ran,                \* history: the nodes executed so far, in order
    metadata,           \* ReviewState.metadata: the injected dependencies and
                        \* the expert_analyses log the expert tasks append to
    changed_files,      \* ReviewState.changed_files
    config,             \* metadata["config"].system
    changed_lines,      \* per file, the added/modified lines of the diff
    file_analyses,      \* ReviewState.file_analyses
    lint_errors,        \* ReviewState.lint_errors
    work_list,          \* ReviewState.work_list
    expert_tasks,       \* ReviewState.expert_tasks (ordered dict: key, items)
    expert_results,     \* ReviewState.expert_results (ordered dict: key, items)
    confirmed_issues,   \* ReviewState.confirmed_issues
    final_report,       \* ReviewState.final_report (its kind, and what it lists)
    \* ---- one expert task's tool-calling graph (ExpertState)
    node,               \* the graph node that runs next, "END", "aborted" or "idle"
    messages,           \* ExpertState.messages, append-only
    tool_bound_calls,   \* history: Gateway calls made with tools bound
    finalize_calls,     \* history: Gateway calls made without tools (finalize)
    risk_context,       \* ExpertState.risk_context, the task's input RiskItem
    analysis_result,    \* what run_expert_analysis returned, once it has
    environ,            \* os.environ: the no-signal settings the runtime reads
    \* ---- one call of the verdict parser
    original_item,      \* the task's input RiskItem
    response,           \* the expert's final response
    verdict,            \* <<>> before the call, <<item>> after it
    \* ---- the expert stage's task pool (expert_execution_node)
    task_state,         \* per task: its group, phase, loop iteration, result
    permits,            \* the value of the shared asyncio.Semaphore
    elapsed,            \* seconds since the start of the run
    gateway_call_after_timeout,
                        \* history: a Gateway call started at or after the timeout
    \* ---- the chunked intent stage (intent_analysis_chunked_node)
    chunks,             \* the chunks packed from the diff
    wait_expired,       \* the timeout of the stage's asyncio.wait has passed
    \* ---- one call of the review-comment builder (build_review_comments)
    comment_args,       \* <<>> or <<the call's arguments>>
    built,              \* <<>> before the call, <<BuiltComments>> after it
    \* ---- the reasoner's request (ExpertGraphRuntime.reasoner)
    new_messages,       \* <<>> or <<the history sent with the last request>>
    \* ---- one direct call of a Manager helper (agents/nodes/manager.py)
    call                \* the helper that runs next, its arguments, its result

runVars == <<stage, ran, metadata, config, changed_files, changed_lines,
             file_analyses,
             lint_errors, work_list, expert_tasks, expert_results,
             confirmed_issues, final_report>>

expVars == <<node, messages, tool_bound_calls, finalize_calls, risk_context,
             analysis_result>>

parseVars == <<original_item, response, verdict>>

poolVars == <<task_state, permits, elapsed, gateway_call_after_timeout>>

chunkVars == <<chunks, wait_expired>>

commentVars == <<comment_args, built>>

shrinkVars == <<new_messages>>

callVars == <<call>>

\* The variables a call of a Manager helper leaves alone.
notCallVars == <<stage, ran, metadata, config, changed_files, changed_lines,
                 file_analyses, lint_errors, work_list, expert_tasks,
                 expert_results, confirmed_issues, final_report, node,
                 messages, tool_bound_calls, finalize_calls, risk_context,
                 analysis_result, original_item, response, verdict,
                 task_state, permits, elapsed, gateway_call_after_timeout,
                 chunks, wait_expired, comment_args, built, new_messages,
                 environ>>

vars == <<runVars, expVars, parseVars, poolVars, chunkVars, commentVars, shrinkVars, callVars, environ>>

\* The variables the pipeline's stage nodes leave alone.
notRunVars == <<expVars, parseVars, poolVars, chunkVars, commentVars, shrinkVars, callVars, environ>>

\* The variables one expert graph, one parser call, the task pool leave alone.
notExpVars == <<runVars, parseVars, poolVars, chunkVars, commentVars, shrinkVars, callVars, environ>>

notParseVars == <<runVars, expVars, poolVars, chunkVars, commentVars, shrinkVars, callVars, environ>>

notPoolVars == <<runVars, expVars, parseVars, chunkVars, commentVars, shrinkVars, callVars, environ>>

\* RunState without its metadata.
runVarsButMetadata == <<stage, ran, config, changed_files, changed_lines,
                        file_analyses, lint_errors, work_list, expert_tasks,
                        expert_results, confirmed_issues, final_report>>

\* EXPERT_MAX_CONSECUTIVE_NO_SIGNAL_TOOLS and EXPERT_NO_SIGNAL_WINDOW defaults.
MaxNoSignalDefault == 5
NoSignalWindowDefault == 10

\* The environment with neither variable set.
DefaultEnviron ==
    [EXPERT_MAX_CONSECUTIVE_NO_SIGNAL_TOOLS |-> MaxNoSignalDefault,
     EXPERT_NO_SIGNAL_WINDOW |-> NoSignalWindowDefault,
     EXPERT_MAX_HISTORY_MESSAGES |-> 16,
     EXPERT_MAX_TOTAL_CHARS |-> 80000,
     EXPERT_MAX_TOOL_CHARS |-> 6000,
     EXPERT_MAX_AI_CHARS |-> 12000,
     INTENT_CHUNK_BUDGET_RATIO |-> <<>>,
     INTENT_CHUNK_BUDGET_SECONDS |-> <<>>,
     INTENT_CHUNK_SOFT_MARGIN_SECONDS |-> <<>>,
     INTENT_CHUNK_TOPK_DISABLE_BELOW |-> <<>>,
     INTENT_CHUNK_TOPK_MAX |-> <<>>,
     INTENT_CHUNK_TOPK_MIN |-> <<>>]

\* No Manager helper is being called.
NoCall == [fn |-> "none"]

\* No expert graph is running.
ExpertIdle ==
    /\ environ = DefaultEnviron
    /\ node = "idle"
    /\ messages = <<>>
    /\ tool_bound_calls = 0
    /\ finalize_calls = 0
    /\ risk_context = <<>>
    /\ analysis_result = [returned |-> FALSE, value |-> <<>>]

\* No verdict is being parsed.
ParseIdle ==
    /\ original_item = <<>>
    /\ response = <<>>
    /\ verdict = <<>>

\* No task pool is running.
PoolIdle ==
    /\ task_state = <<>>
    /\ permits = 0
    /\ elapsed = 0
    /\ gateway_call_after_timeout = FALSE
    /\ chunks = <<>>
    /\ wait_expired = FALSE
    /\ comment_args = <<>>
    /\ built = <<>>
    /\ new_messages = <<>>
    /\ call = NoCall

NotRunIdle == ExpertIdle /\ ParseIdle /\ PoolIdle

-----------------------------------------------------------------------------
(* Values                                                                  *)

\* 1.0 in tenths (RiskItem.confidence is bounded by le=1.0).
ConfOne == 10

\* None (an absent suggestion).
None == "None"

\* An empty dict.
EmptyMap == [k \in {} |-> 0]

\* class RiskType(str, Enum): the members and their values.
RiskType ==
    [NULL_SAFETY |-> "null_safety", CONCURRENCY |-> "concurrency",
     SECURITY |-> "security", BUSINESS_INTENT |-> "business_intent",
     LIFECYCLE |-> "lifecycle", SYNTAX |-> "syntax"]

\* The values RiskType(value) accepts.
RiskTypes == {RiskType[m] : m \in DOMAIN RiskType}

\* RiskType.<name>: the member, or AttributeError when the enum has none of
\* that name.
member(name) ==
    IF name \in DOMAIN RiskType
    THEN [raised |-> FALSE, value |-> RiskType[name]]
    ELSE [raised |-> TRUE]

\* RiskType.SYNTAX_STATIC_ERRORS, as manager.py writes it.
SYNTAX_STATIC_ERRORS == member("SYNTAX_STATIC_ERRORS")

\* RiskItem(...): the pydantic model, one record per item. Its confidence
\* is a float: `confidence` is the number of tenths and `confidence_ulps` the
\* number of doubles the float lies above (below, when negative) the double
\* nearest that many tenths; a confidence written as a decimal lies on it.
RiskItem(rt, fp, ln, desc, conf, sev, sugg) ==
    [risk_type |-> rt, file_path |-> fp, line_number |-> ln,
     description |-> desc, confidence |-> conf, confidence_ulps |-> 0,
     severity |-> sev, suggestion |-> sugg]

\* item.confidence >= threshold, for a threshold of that many tenths.
confidence_at_least(item, threshold) ==
    \/ item.confidence > threshold
    \/ item.confidence = threshold /\ item.confidence_ulps >= 0

\* A JSON value handed to RiskItem as line_number: a list (or tuple) of
\* integers, a single integer, or null.
JsonList(items) == [kind |-> "list", items |-> items]
JsonInt(n) == [kind |-> "int", items |-> <<n>>]
JsonNull == [kind |-> "null", items |-> <<>>]

\* A mutant: the check start < 1 is missing.
normalize_line_number_without_lower_bound(v) ==
    IF v.kind = "list" /\ Len(v.items) = 2 /\ v.items[1] <= v.items[2]
    THEN [raised |-> FALSE, value |-> <<v.items[1], v.items[2]>>]
    ELSE [raised |-> TRUE]

\* RiskItem.normalize_line_number (field validator, mode "before"): the
\* tuple (start, end), or a ValueError.
normalize_line_number(v) ==
    IF v.kind = "list"
    THEN IF Len(v.items) = 2
         THEN IF v.items[1] > v.items[2] THEN [raised |-> TRUE]
              ELSE IF v.items[1] < 1 THEN [raised |-> TRUE]
              ELSE [raised |-> FALSE, value |-> <<v.items[1], v.items[2]>>]
         ELSE [raised |-> TRUE]
    ELSE [raised |-> TRUE]

\* normalize_line_number accepts [start, end] with 1 <= start <= end.
valid_line_number(ln) == ~normalize_line_number(JsonList(ln)).raised

\* RiskType(...) raises ValueError and RiskItem(...) a validation error; args
\* are the keyword arguments, line_number still a JSON value.
construction_raises(args) ==
    \/ args.risk_type \notin RiskTypes
    \/ normalize_line_number(args.line_number).raised
    \/ args.confidence < 0
    \/ args.confidence > ConfOne

\* The RiskItem built from keyword arguments that pass validation.
constructed(args) ==
    [args EXCEPT !.line_number = normalize_line_number(args.line_number).value]

\* Sequences over S of length at most n.
SeqUpTo(S, n) == UNION {[1..k -> S] : k \in 0..n}

RECURSIVE Flatten(_)
\* all_results.extend(results) over the groups of a dict, in dict order.
Flatten(groups) ==
    IF groups = <<>> THEN <<>>
    ELSE Head(groups).items \o Flatten(Tail(groups))

RECURSIVE SelectSeqBy(_, _)
\* [x for x in s if keep[x]] with keep a set of indices kept.
SelectSeqBy(s, keepIdx) ==
    IF s = <<>> THEN <<>>
    ELSE LET n == Len(s)
             front == SelectSeqBy(SubSeq(s, 1, n - 1), keepIdx)
         IN IF n \in keepIdx THEN Append(front, s[n]) ELSE front

-----------------------------------------------------------------------------
(* Reporter (agents/nodes/reporter.py)                                     *)

\* metadata.get("confidence_threshold", 0.5)
DefaultThresholdFallback == 5

\* metadata["confidence_threshold"] is <<>> when the key is absent, else <<v>>.
default_threshold(meta) ==
    IF meta.confidence_threshold = <<>> THEN DefaultThresholdFallback
    ELSE meta.confidence_threshold[1]

\* A mutant: the per-type map is ignored.
threshold_for_no_map(meta, cfg, rt) == default_threshold(meta)

\* threshold_by_type.get(item.risk_type.value, confidence_threshold)
threshold_for(meta, cfg, rt) ==
    IF rt \in DOMAIN cfg.confidence_threshold_by_risk_type
    THEN cfg.confidence_threshold_by_risk_type[rt]
    ELSE default_threshold(meta)

\* confirmed_issues = [item for item in all_results if item.confidence >= ...]
filter_confirmed(meta, cfg, all_results) ==
    SelectSeqBy(all_results,
        {i \in 1..Len(all_results) :
            confidence_at_least(all_results[i],
                threshold_for(meta, cfg, all_results[i].risk_type))})

\* reporter_node: what it returns, given whether the report LLM call succeeds.
Ok(out) == [raised |-> FALSE] @@ out

\* A mutant: the report call is not guarded by try/except.
reporter_node_without_except(meta, cfg, results, llm_ok) ==
    IF ~meta.llm
    THEN Ok([confirmed_issues |-> <<>>, final_report |-> "llm_unavailable"])
    ELSE LET confirmed == filter_confirmed(meta, cfg, Flatten(results)) IN
         IF confirmed = <<>>
         THEN Ok([confirmed_issues |-> <<>>, final_report |-> "no_issues"])
         ELSE IF llm_ok
         THEN Ok([confirmed_issues |-> confirmed, final_report |-> "llm_report"])
         ELSE [raised |-> TRUE]

\* reporter_node: what it returns, given whether the report LLM call succeeds;
\* a failing call is caught and answered with the simple report.
reporter_node(meta, cfg, results, llm_ok) ==
    IF ~meta.llm
    THEN Ok([confirmed_issues |-> <<>>, final_report |-> "llm_unavailable"])
    ELSE LET confirmed == filter_confirmed(meta, cfg, Flatten(results)) IN
         IF confirmed = <<>>
         THEN Ok([confirmed_issues |-> <<>>, final_report |-> "no_issues"])
         ELSE IF llm_ok
         THEN Ok([confirmed_issues |-> confirmed, final_report |-> "llm_report"])
         ELSE Ok([confirmed_issues |-> confirmed, final_report |-> "simple_report"])

\* run_multi_agent_workflow's except branch: a node raised out of
\* app.ainvoke and the driver returns the workflow-error result.
DriverExcept ==
    /\ stage' = "error"
    /\ confirmed_issues' = <<>>
    /\ final_report' = "workflow_error"
    /\ file_analyses' = <<>>
    /\ work_list' = <<>>
    /\ expert_tasks' = <<>>
    /\ expert_results' = <<>>
    /\ UNCHANGED <<ran, metadata, config, changed_files, changed_lines,
                   lint_errors, notRunVars>>

\* The reporter node as a graph step; confirmed_issues is reduced with operator.add.
ReporterNode(llm_ok) ==
    /\ stage = "reporter"
    /\ \E out \in {reporter_node(metadata, config, expert_results, llm_ok)} :
       IF out.raised THEN DriverExcept
       ELSE /\ confirmed_issues' = confirmed_issues \o out.confirmed_issues
            /\ final_report' = out.final_report
            /\ stage' = "END"
            /\ ran' = Append(ran, "reporter")
            /\ UNCHANGED <<metadata, config, changed_files, changed_lines,
                           file_analyses, lint_errors, work_list, expert_tasks,
                           expert_results, notRunVars>>

ReporterOk == ReporterNode(TRUE)
ReporterLlmFails == ReporterNode(FALSE)

-----------------------------------------------------------------------------
(* Configuration (core/config.py SystemConfig), with its defaults          *)

DefaultConfig ==
    [timeout_seconds |-> 600,
     max_concurrent_llm_requests |-> 5,
     max_expert_rounds |-> 20,
     max_expert_tool_calls |-> 6,
     manager_anchor_window |-> 5,
     manager_drop_unanchored |-> TRUE,
     manager_unanchored_confidence |-> 2,
     manager_max_work_items_total |-> 30,
     manager_max_items_per_file |-> 6,
     manager_max_items_per_risk_type |-> EmptyMap,
     manager_merge_line_window |-> 5,
     manager_merge_jaccard |-> 75,
     manager_risk_type_weights |-> EmptyMap,
     manager_severity_weights |-> EmptyMap,
     confidence_threshold |-> 6,
     confidence_threshold_by_risk_type |-> EmptyMap]

\* The metadata run_multi_agent_workflow and ainvoke_with_deps build: the
\* Gateway is stored under "llm_provider" and "llm_adapter", never under
\* "llm"; "tools" is the list create_multi_agent_workflow makes, the names
\* of its tools here, which holds ReadFileTool alone.
DriverMetadata ==
    [llm |-> FALSE, llm_provider |-> TRUE, llm_adapter |-> TRUE,
     config |-> TRUE, tools |-> <<"read_file">>,
     confidence_threshold |-> <<5>>,
     expert_analyses |-> <<>>]

-----------------------------------------------------------------------------
(* Manager (agents/nodes/manager.py)                                       *)
(*                                                                         *)
(* A file path is its sequence of segments ("a/x.py" is <<"a", "x.py">>,   *)
(* a leading "/" gives a first segment ""); a description is the sequence  *)
(* of its paragraphs (joined by blank lines), a paragraph the sequence of  *)
(* its words.                                                              *)

Min(S) == CHOOSE x \in S : \A y \in S : x <= y
Max(S) == CHOOSE x \in S : \A y \in S : x >= y

\* _normalize_path: strip a leading "a/" or "b/", then a leading "/".
_normalize_path(p) ==
    LET s1 == IF Len(p) >= 2 /\ p[1] \in {"a", "b"} THEN Tail(p) ELSE p
    IN IF Len(s1) >= 2 /\ s1[1] = "" THEN Tail(s1) ELSE s1

\* A str the code strips or folds (a severity) is the sequence of its code
\* points; str("error") spells out a literal of printable ASCII.
AsciiTo95 ==
    " !\"#$%&'()*+,-./0123456789:;<=>?@ABCDEFGHIJKLMNOPQRSTUVWXYZ[\\]^_"
AsciiFrom97 == "abcdefghijklmnopqrstuvwxyz{|}~"

\* ord(c) of a printable ASCII character other than the grave accent.
ord(c) ==
    IF \E i \in 1..Len(AsciiTo95) : SubSeq(AsciiTo95, i, i) = c
    THEN 31 + (CHOOSE i \in 1..Len(AsciiTo95) : SubSeq(AsciiTo95, i, i) = c)
    ELSE 96 + (CHOOSE i \in 1..Len(AsciiFrom97) : SubSeq(AsciiFrom97, i, i) = c)

str(literal) == [i \in 1..Len(literal) |-> ord(SubSeq(literal, i, i))]

\* A range table lists <<first, last, step>>: the code points first,
\* first + step, ... up to last.
in_ranges(c, table) ==
    \E r \in 1..Len(table) :
        /\ table[r][1] <= c
        /\ c <= table[r][2]
        /\ (c - table[r][1]) % table[r][3] = 0

\* The upper-case code points above ASCII that str.lower() maps to one other
\* code point (CPython 3.11, Unicode 14.0): <<first, last, step, delta>>, the
\* lower case of c being c + delta.
LowerRanges ==
    <<<<192, 214, 1, 32>>, <<216, 222, 1, 32>>, <<256, 302, 2, 1>>,
      <<306, 310, 2, 1>>, <<313, 327, 2, 1>>, <<330, 374, 2, 1>>,
      <<376, 376, 1, -121>>, <<377, 381, 2, 1>>, <<385, 385, 1, 210>>,
      <<386, 388, 2, 1>>, <<390, 390, 1, 206>>, <<391, 391, 1, 1>>,
      <<393, 394, 1, 205>>, <<395, 395, 1, 1>>, <<398, 398, 1, 79>>,
      <<399, 399, 1, 202>>, <<400, 400, 1, 203>>, <<401, 401, 1, 1>>,
      <<403, 403, 1, 205>>, <<404, 404, 1, 207>>, <<406, 406, 1, 211>>,
      <<407, 407, 1, 209>>, <<408, 408, 1, 1>>, <<412, 412, 1, 211>>,
      <<413, 413, 1, 213>>, <<415, 415, 1, 214>>, <<416, 420, 2, 1>>,
      <<422, 422, 1, 218>>, <<423, 423, 1, 1>>, <<425, 425, 1, 218>>,
      <<428, 428, 1, 1>>, <<430, 430, 1, 218>>, <<431, 431, 1, 1>>,
      <<433, 434, 1, 217>>, <<435, 437, 2, 1>>, <<439, 439, 1, 219>>,
      <<440, 440, 1, 1>>, <<444, 444, 1, 1>>, <<452, 452, 1, 2>>,
      <<453, 453, 1, 1>>, <<455, 455, 1, 2>>, <<456, 456, 1, 1>>,
      <<458, 458, 1, 2>>, <<459, 475, 2, 1>>, <<478, 494, 2, 1>>,
      <<497, 497, 1, 2>>, <<498, 500, 2, 1>>, <<502, 502, 1, -97>>,
      <<503, 503, 1, -56>>, <<504, 542, 2, 1>>, <<544, 544, 1, -130>>,
      <<546, 562, 2, 1>>, <<570, 570, 1, 10795>>, <<571, 571, 1, 1>>,
      <<573, 573, 1, -163>>, <<574, 574, 1, 10792>>, <<577, 577, 1, 1>>,
      <<579, 579, 1, -195>>, <<580, 580, 1, 69>>, <<581, 581, 1, 71>>,
      <<582, 590, 2, 1>>, <<880, 882, 2, 1>>, <<886, 886, 1, 1>>,
      <<895, 895, 1, 116>>, <<902, 902, 1, 38>>, <<904, 906, 1, 37>>,
      <<908, 908, 1, 64>>, <<910, 911, 1, 63>>, <<913, 929, 1, 32>>,
      <<931, 939, 1, 32>>, <<975, 975, 1, 8>>, <<984, 1006, 2, 1>>,
      <<1012, 1012, 1, -60>>, <<1015, 1015, 1, 1>>, <<1017, 1017, 1, -7>>,
      <<1018, 1018, 1, 1>>, <<1021, 1023, 1, -130>>, <<1024, 1039, 1, 80>>,
      <<1040, 1071, 1, 32>>, <<1120, 1152, 2, 1>>, <<1162, 1214, 2, 1>>,
      <<1216, 1216, 1, 15>>, <<1217, 1229, 2, 1>>, <<1232, 1326, 2, 1>>,
      <<1329, 1366, 1, 48>>, <<4256, 4293, 1, 7264>>,
      <<4295, 4295, 1, 7264>>, <<4301, 4301, 1, 7264>>,
      <<5024, 5103, 1, 38864>>, <<5104, 5109, 1, 8>>,
      <<7312, 7354, 1, -3008>>, <<7357, 7359, 1, -3008>>,
      <<7680, 7828, 2, 1>>, <<7838, 7838, 1, -7615>>, <<7840, 7934, 2, 1>>,
      <<7944, 7951, 1, -8>>, <<7960, 7965, 1, -8>>, <<7976, 7983, 1, -8>>,
      <<7992, 7999, 1, -8>>, <<8008, 8013, 1, -8>>, <<8025, 8031, 2, -8>>,
      <<8040, 8047, 1, -8>>, <<8072, 8079, 1, -8>>, <<8088, 8095, 1, -8>>,
      <<8104, 8111, 1, -8>>, <<8120, 8121, 1, -8>>, <<8122, 8123, 1, -74>>,
      <<8124, 8124, 1, -9>>, <<8136, 8139, 1, -86>>, <<8140, 8140, 1, -9>>,
      <<8152, 8153, 1, -8>>, <<8154, 8155, 1, -100>>, <<8168, 8169, 1, -8>>,
      <<8170, 8171, 1, -112>>, <<8172, 8172, 1, -7>>,
      <<8184, 8185, 1, -128>>, <<8186, 8187, 1, -126>>,
      <<8188, 8188, 1, -9>>, <<8486, 8486, 1, -7517>>,
      <<8490, 8490, 1, -8383>>, <<8491, 8491, 1, -8262>>,
      <<8498, 8498, 1, 28>>, <<8544, 8559, 1, 16>>, <<8579, 8579, 1, 1>>,
      <<9398, 9423, 1, 26>>, <<11264, 11311, 1, 48>>, <<11360, 11360, 1, 1>>,
      <<11362, 11362, 1, -10743>>, <<11363, 11363, 1, -3814>>,
      <<11364, 11364, 1, -10727>>, <<11367, 11371, 2, 1>>,
      <<11373, 11373, 1, -10780>>, <<11374, 11374, 1, -10749>>,
      <<11375, 11375, 1, -10783>>, <<11376, 11376, 1, -10782>>,
      <<11378, 11378, 1, 1>>, <<11381, 11381, 1, 1>>,
      <<11390, 11391, 1, -10815>>, <<11392, 11490, 2, 1>>,
      <<11499, 11501, 2, 1>>, <<11506, 11506, 1, 1>>, <<42560, 42604, 2, 1>>,
      <<42624, 42650, 2, 1>>, <<42786, 42798, 2, 1>>, <<42802, 42862, 2, 1>>,
      <<42873, 42875, 2, 1>>, <<42877, 42877, 1, -35332>>,
      <<42878, 42886, 2, 1>>, <<42891, 42891, 1, 1>>,
      <<42893, 42893, 1, -42280>>, <<42896, 42898, 2, 1>>,
      <<42902, 42920, 2, 1>>, <<42922, 42922, 1, -42308>>,
      <<42923, 42923, 1, -42319>>, <<42924, 42924, 1, -42315>>,
      <<42925, 42925, 1, -42305>>, <<42926, 42926, 1, -42308>>,
      <<42928, 42928, 1, -42258>>, <<42929, 42929, 1, -42282>>,
      <<42930, 42930, 1, -42261>>, <<42931, 42931, 1, 928>>,
      <<42932, 42946, 2, 1>>, <<42948, 42948, 1, -48>>,
      <<42949, 42949, 1, -42307>>, <<42950, 42950, 1, -35384>>,
      <<42951, 42953, 2, 1>>, <<42960, 42960, 1, 1>>, <<42966, 42968, 2, 1>>,
      <<42997, 42997, 1, 1>>, <<65313, 65338, 1, 32>>,
      <<66560, 66599, 1, 40>>, <<66736, 66771, 1, 40>>,
      <<66928, 66938, 1, 39>>, <<66940, 66954, 1, 39>>,
      <<66956, 66962, 1, 39>>, <<66964, 66965, 1, 39>>,
      <<68736, 68786, 1, 64>>, <<71840, 71871, 1, 32>>,
      <<93760, 93791, 1, 32>>, <<125184, 125217, 1, 34>>>>

\* The code points the final-sigma rule skips (Case_Ignorable).
CaseIgnorableRanges ==
    <<<<39, 39, 1>>, <<46, 46, 1>>, <<58, 58, 1>>, <<94, 96, 2>>,
      <<168, 168, 1>>, <<173, 175, 2>>, <<180, 180, 1>>, <<183, 184, 1>>,
      <<688, 879, 1>>, <<884, 885, 1>>, <<890, 890, 1>>, <<900, 901, 1>>,
      <<903, 903, 1>>, <<1155, 1161, 1>>, <<1369, 1369, 1>>,
      <<1375, 1375, 1>>, <<1425, 1469, 1>>, <<1471, 1473, 2>>,
      <<1474, 1476, 2>>, <<1477, 1479, 2>>, <<1524, 1524, 1>>,
      <<1536, 1541, 1>>, <<1552, 1562, 1>>, <<1564, 1564, 1>>,
      <<1600, 1600, 1>>, <<1611, 1631, 1>>, <<1648, 1648, 1>>,
      <<1750, 1757, 1>>, <<1759, 1768, 1>>, <<1770, 1773, 1>>,
      <<1807, 1809, 2>>, <<1840, 1866, 1>>, <<1958, 1968, 1>>,
      <<2027, 2037, 1>>, <<2042, 2042, 1>>, <<2045, 2045, 1>>,
      <<2070, 2093, 1>>, <<2137, 2139, 1>>, <<2184, 2184, 1>>,
      <<2192, 2193, 1>>, <<2200, 2207, 1>>, <<2249, 2306, 1>>,
      <<2362, 2364, 2>>, <<2369, 2376, 1>>, <<2381, 2381, 1>>,
      <<2385, 2391, 1>>, <<2402, 2403, 1>>, <<2417, 2417, 1>>,
      <<2433, 2433, 1>>, <<2492, 2492, 1>>, <<2497, 2500, 1>>,
      <<2509, 2509, 1>>, <<2530, 2531, 1>>, <<2558, 2558, 1>>,
      <<2561, 2562, 1>>, <<2620, 2620, 1>>, <<2625, 2626, 1>>,
      <<2631, 2632, 1>>, <<2635, 2637, 1>>, <<2641, 2641, 1>>,
      <<2672, 2673, 1>>, <<2677, 2677, 1>>, <<2689, 2690, 1>>,
      <<2748, 2748, 1>>, <<2753, 2757, 1>>, <<2759, 2760, 1>>,
      <<2765, 2765, 1>>, <<2786, 2787, 1>>, <<2810, 2815, 1>>,
      <<2817, 2817, 1>>, <<2876, 2876, 1>>, <<2879, 2881, 2>>,
      <<2882, 2884, 1>>, <<2893, 2893, 1>>, <<2901, 2902, 1>>,
      <<2914, 2915, 1>>, <<2946, 2946, 1>>, <<3008, 3008, 1>>,
      <<3021, 3021, 1>>, <<3072, 3072, 1>>, <<3076, 3076, 1>>,
      <<3132, 3134, 2>>, <<3135, 3136, 1>>, <<3142, 3144, 1>>,
      <<3146, 3149, 1>>, <<3157, 3158, 1>>, <<3170, 3171, 1>>,
      <<3201, 3201, 1>>, <<3260, 3260, 1>>, <<3263, 3263, 1>>,
      <<3270, 3270, 1>>, <<3276, 3277, 1>>, <<3298, 3299, 1>>,
      <<3328, 3329, 1>>, <<3387, 3388, 1>>, <<3393, 3396, 1>>,
      <<3405, 3405, 1>>, <<3426, 3427, 1>>, <<3457, 3457, 1>>,
      <<3530, 3530, 1>>, <<3538, 3540, 1>>, <<3542, 3542, 1>>,
      <<3633, 3633, 1>>, <<3636, 3642, 1>>, <<3654, 3662, 1>>,
      <<3761, 3761, 1>>, <<3764, 3772, 1>>, <<3782, 3784, 2>>,
      <<3785, 3789, 1>>, <<3864, 3865, 1>>, <<3893, 3897, 2>>,
      <<3953, 3966, 1>>, <<3968, 3972, 1>>, <<3974, 3975, 1>>,
      <<3981, 3991, 1>>, <<3993, 4028, 1>>, <<4038, 4038, 1>>,
      <<4141, 4144, 1>>, <<4146, 4151, 1>>, <<4153, 4154, 1>>,
      <<4157, 4158, 1>>, <<4184, 4185, 1>>, <<4190, 4192, 1>>,
      <<4209, 4212, 1>>, <<4226, 4226, 1>>, <<4229, 4230, 1>>,
      <<4237, 4237, 1>>, <<4253, 4253, 1>>, <<4348, 4348, 1>>,
      <<4957, 4959, 1>>, <<5906, 5908, 1>>, <<5938, 5939, 1>>,
      <<5970, 5971, 1>>, <<6002, 6003, 1>>, <<6068, 6069, 1>>,
      <<6071, 6077, 1>>, <<6086, 6086, 1>>, <<6089, 6099, 1>>,
      <<6103, 6103, 1>>, <<6109, 6109, 1>>, <<6155, 6159, 1>>,
      <<6211, 6211, 1>>, <<6277, 6278, 1>>, <<6313, 6313, 1>>,
      <<6432, 6434, 1>>, <<6439, 6440, 1>>, <<6450, 6450, 1>>,
      <<6457, 6459, 1>>, <<6679, 6680, 1>>, <<6683, 6683, 1>>,
      <<6742, 6744, 2>>, <<6745, 6750, 1>>, <<6752, 6754, 2>>,
      <<6757, 6764, 1>>, <<6771, 6780, 1>>, <<6783, 6783, 1>>,
      <<6823, 6823, 1>>, <<6832, 6862, 1>>, <<6912, 6915, 1>>,
      <<6964, 6966, 2>>, <<6967, 6970, 1>>, <<6972, 6972, 1>>,
      <<6978, 6978, 1>>, <<7019, 7027, 1>>, <<7040, 7041, 1>>,
      <<7074, 7077, 1>>, <<7080, 7081, 1>>, <<7083, 7085, 1>>,
      <<7142, 7144, 2>>, <<7145, 7145, 1>>, <<7149, 7151, 2>>,
      <<7152, 7153, 1>>, <<7212, 7219, 1>>, <<7222, 7223, 1>>,
      <<7288, 7293, 1>>, <<7376, 7378, 1>>, <<7380, 7392, 1>>,
      <<7394, 7400, 1>>, <<7405, 7405, 1>>, <<7412, 7412, 1>>,
      <<7416, 7417, 1>>, <<7468, 7530, 1>>, <<7544, 7544, 1>>,
      <<7579, 7679, 1>>, <<8125, 8127, 2>>, <<8128, 8129, 1>>,
      <<8141, 8143, 1>>, <<8157, 8159, 1>>, <<8173, 8175, 1>>,
      <<8189, 8190, 1>>, <<8203, 8207, 1>>, <<8216, 8217, 1>>,
      <<8228, 8228, 1>>, <<8231, 8231, 1>>, <<8234, 8238, 1>>,
      <<8288, 8292, 1>>, <<8294, 8303, 1>>, <<8305, 8305, 1>>,
      <<8319, 8319, 1>>, <<8336, 8348, 1>>, <<8400, 8432, 1>>,
      <<11388, 11389, 1>>, <<11503, 11505, 1>>, <<11631, 11631, 1>>,
      <<11647, 11647, 1>>, <<11744, 11775, 1>>, <<11823, 11823, 1>>,
      <<12293, 12293, 1>>, <<12330, 12333, 1>>, <<12337, 12341, 1>>,
      <<12347, 12347, 1>>, <<12441, 12446, 1>>, <<12540, 12542, 1>>,
      <<40981, 40981, 1>>, <<42232, 42237, 1>>, <<42508, 42508, 1>>,
      <<42607, 42610, 1>>, <<42612, 42621, 1>>, <<42623, 42623, 1>>,
      <<42652, 42655, 1>>, <<42736, 42737, 1>>, <<42752, 42785, 1>>,
      <<42864, 42864, 1>>, <<42888, 42890, 1>>, <<42994, 42996, 1>>,
      <<43000, 43001, 1>>, <<43010, 43010, 1>>, <<43014, 43014, 1>>,
      <<43019, 43019, 1>>, <<43045, 43046, 1>>, <<43052, 43052, 1>>,
      <<43204, 43205, 1>>, <<43232, 43249, 1>>, <<43263, 43263, 1>>,
      <<43302, 43309, 1>>, <<43335, 43345, 1>>, <<43392, 43394, 1>>,
      <<43443, 43443, 1>>, <<43446, 43449, 1>>, <<43452, 43453, 1>>,
      <<43471, 43471, 1>>, <<43493, 43494, 1>>, <<43561, 43566, 1>>,
      <<43569, 43570, 1>>, <<43573, 43574, 1>>, <<43587, 43587, 1>>,
      <<43596, 43596, 1>>, <<43632, 43632, 1>>, <<43644, 43644, 1>>,
      <<43696, 43698, 2>>, <<43699, 43700, 1>>, <<43703, 43704, 1>>,
      <<43710, 43711, 1>>, <<43713, 43713, 1>>, <<43741, 43741, 1>>,
      <<43756, 43757, 1>>, <<43763, 43764, 1>>, <<43766, 43766, 1>>,
      <<43867, 43871, 1>>, <<43881, 43883, 1>>, <<44005, 44005, 1>>,
      <<44008, 44008, 1>>, <<44013, 44013, 1>>, <<64286, 64286, 1>>,
      <<64434, 64450, 1>>, <<65024, 65039, 1>>, <<65043, 65043, 1>>,
      <<65056, 65071, 1>>, <<65106, 65106, 1>>, <<65109, 65109, 1>>,
      <<65279, 65279, 1>>, <<65287, 65287, 1>>, <<65294, 65294, 1>>,
      <<65306, 65306, 1>>, <<65342, 65344, 2>>, <<65392, 65392, 1>>,
      <<65438, 65439, 1>>, <<65507, 65507, 1>>, <<65529, 65531, 1>>,
      <<66045, 66045, 1>>, <<66272, 66272, 1>>, <<66422, 66426, 1>>,
      <<67456, 67461, 1>>, <<67463, 67504, 1>>, <<67506, 67514, 1>>,
      <<68097, 68099, 1>>, <<68101, 68102, 1>>, <<68108, 68111, 1>>,
      <<68152, 68154, 1>>, <<68159, 68159, 1>>, <<68325, 68326, 1>>,
      <<68900, 68903, 1>>, <<69291, 69292, 1>>, <<69446, 69456, 1>>,
      <<69506, 69509, 1>>, <<69633, 69633, 1>>, <<69688, 69702, 1>>,
      <<69744, 69744, 1>>, <<69747, 69748, 1>>, <<69759, 69761, 1>>,
      <<69811, 69814, 1>>, <<69817, 69818, 1>>, <<69821, 69821, 1>>,
      <<69826, 69826, 1>>, <<69837, 69837, 1>>, <<69888, 69890, 1>>,
      <<69927, 69931, 1>>, <<69933, 69940, 1>>, <<70003, 70003, 1>>,
      <<70016, 70017, 1>>, <<70070, 70078, 1>>, <<70089, 70092, 1>>,
      <<70095, 70095, 1>>, <<70191, 70193, 1>>, <<70196, 70198, 2>>,
      <<70199, 70199, 1>>, <<70206, 70206, 1>>, <<70367, 70367, 1>>,
      <<70371, 70378, 1>>, <<70400, 70401, 1>>, <<70459, 70460, 1>>,
      <<70464, 70464, 1>>, <<70502, 70508, 1>>, <<70512, 70516, 1>>,
      <<70712, 70719, 1>>, <<70722, 70724, 1>>, <<70726, 70726, 1>>,
      <<70750, 70750, 1>>, <<70835, 70840, 1>>, <<70842, 70842, 1>>,
      <<70847, 70848, 1>>, <<70850, 70851, 1>>, <<71090, 71093, 1>>,
      <<71100, 71101, 1>>, <<71103, 71104, 1>>, <<71132, 71133, 1>>,
      <<71219, 71226, 1>>, <<71229, 71231, 2>>, <<71232, 71232, 1>>,
      <<71339, 71341, 2>>, <<71344, 71349, 1>>, <<71351, 71351, 1>>,
      <<71453, 71455, 1>>, <<71458, 71461, 1>>, <<71463, 71467, 1>>,
      <<71727, 71735, 1>>, <<71737, 71738, 1>>, <<71995, 71996, 1>>,
      <<71998, 71998, 1>>, <<72003, 72003, 1>>, <<72148, 72151, 1>>,
      <<72154, 72155, 1>>, <<72160, 72160, 1>>, <<72193, 72202, 1>>,
      <<72243, 72248, 1>>, <<72251, 72254, 1>>, <<72263, 72263, 1>>,
      <<72273, 72278, 1>>, <<72281, 72283, 1>>, <<72330, 72342, 1>>,
      <<72344, 72345, 1>>, <<72752, 72758, 1>>, <<72760, 72765, 1>>,
      <<72767, 72767, 1>>, <<72850, 72871, 1>>, <<72874, 72880, 1>>,
      <<72882, 72883, 1>>, <<72885, 72886, 1>>, <<73009, 73014, 1>>,
      <<73018, 73020, 2>>, <<73021, 73023, 2>>, <<73024, 73029, 1>>,
      <<73031, 73031, 1>>, <<73104, 73105, 1>>, <<73109, 73111, 2>>,
      <<73459, 73460, 1>>, <<78896, 78904, 1>>, <<92912, 92916, 1>>,
      <<92976, 92982, 1>>, <<92992, 92995, 1>>, <<94031, 94031, 1>>,
      <<94095, 94111, 1>>, <<94176, 94177, 1>>, <<94179, 94180, 1>>,
      <<110576, 110579, 1>>, <<110581, 110587, 1>>, <<110589, 110590, 1>>,
      <<113821, 113822, 1>>, <<113824, 113827, 1>>, <<118528, 118573, 1>>,
      <<118576, 118598, 1>>, <<119143, 119145, 1>>, <<119155, 119170, 1>>,
      <<119173, 119179, 1>>, <<119210, 119213, 1>>, <<119362, 119364, 1>>,
      <<121344, 121398, 1>>, <<121403, 121452, 1>>, <<121461, 121461, 1>>,
      <<121476, 121476, 1>>, <<121499, 121503, 1>>, <<121505, 121519, 1>>,
      <<122880, 122886, 1>>, <<122888, 122904, 1>>, <<122907, 122913, 1>>,
      <<122915, 122916, 1>>, <<122918, 122922, 1>>, <<123184, 123197, 1>>,
      <<123566, 123566, 1>>, <<123628, 123631, 1>>, <<125136, 125142, 1>>,
      <<125252, 125259, 1>>, <<127995, 127999, 1>>, <<917505, 917505, 1>>,
      <<917536, 917631, 1>>, <<917760, 917999, 1>>>>

\* The cased code points (Cased), of those that are not skipped.
CasedRanges ==
    <<<<65, 90, 1>>, <<97, 122, 1>>, <<170, 170, 1>>, <<181, 181, 1>>,
      <<186, 186, 1>>, <<192, 214, 1>>, <<216, 246, 1>>, <<248, 442, 1>>,
      <<444, 447, 1>>, <<452, 659, 1>>, <<661, 687, 1>>, <<880, 883, 1>>,
      <<886, 887, 1>>, <<891, 893, 1>>, <<895, 895, 1>>, <<902, 904, 2>>,
      <<905, 906, 1>>, <<908, 910, 2>>, <<911, 929, 1>>, <<931, 1013, 1>>,
      <<1015, 1153, 1>>, <<1162, 1327, 1>>, <<1329, 1366, 1>>,
      <<1376, 1416, 1>>, <<4256, 4293, 1>>, <<4295, 4295, 1>>,
      <<4301, 4301, 1>>, <<4304, 4346, 1>>, <<4349, 4351, 1>>,
      <<5024, 5109, 1>>, <<5112, 5117, 1>>, <<7296, 7304, 1>>,
      <<7312, 7354, 1>>, <<7357, 7359, 1>>, <<7424, 7467, 1>>,
      <<7531, 7543, 1>>, <<7545, 7578, 1>>, <<7680, 7957, 1>>,
      <<7960, 7965, 1>>, <<7968, 8005, 1>>, <<8008, 8013, 1>>,
      <<8016, 8023, 1>>, <<8025, 8031, 2>>, <<8032, 8061, 1>>,
      <<8064, 8116, 1>>, <<8118, 8124, 1>>, <<8126, 8126, 1>>,
      <<8130, 8132, 1>>, <<8134, 8140, 1>>, <<8144, 8147, 1>>,
      <<8150, 8155, 1>>, <<8160, 8172, 1>>, <<8178, 8180, 1>>,
      <<8182, 8188, 1>>, <<8450, 8450, 1>>, <<8455, 8455, 1>>,
      <<8458, 8467, 1>>, <<8469, 8469, 1>>, <<8473, 8477, 1>>,
      <<8484, 8490, 2>>, <<8491, 8493, 1>>, <<8495, 8500, 1>>,
      <<8505, 8505, 1>>, <<8508, 8511, 1>>, <<8517, 8521, 1>>,
      <<8526, 8526, 1>>, <<8544, 8575, 1>>, <<8579, 8580, 1>>,
      <<9398, 9449, 1>>, <<11264, 11387, 1>>, <<11390, 11492, 1>>,
      <<11499, 11502, 1>>, <<11506, 11507, 1>>, <<11520, 11557, 1>>,
      <<11559, 11559, 1>>, <<11565, 11565, 1>>, <<42560, 42605, 1>>,
      <<42624, 42651, 1>>, <<42786, 42863, 1>>, <<42865, 42887, 1>>,
      <<42891, 42894, 1>>, <<42896, 42954, 1>>, <<42960, 42961, 1>>,
      <<42963, 42965, 2>>, <<42966, 42969, 1>>, <<42997, 42998, 1>>,
      <<43002, 43002, 1>>, <<43824, 43866, 1>>, <<43872, 43880, 1>>,
      <<43888, 43967, 1>>, <<64256, 64262, 1>>, <<64275, 64279, 1>>,
      <<65313, 65338, 1>>, <<65345, 65370, 1>>, <<66560, 66639, 1>>,
      <<66736, 66771, 1>>, <<66776, 66811, 1>>, <<66928, 66938, 1>>,
      <<66940, 66954, 1>>, <<66956, 66962, 1>>, <<66964, 66965, 1>>,
      <<66967, 66977, 1>>, <<66979, 66993, 1>>, <<66995, 67001, 1>>,
      <<67003, 67004, 1>>, <<68736, 68786, 1>>, <<68800, 68850, 1>>,
      <<71840, 71903, 1>>, <<93760, 93823, 1>>, <<119808, 119892, 1>>,
      <<119894, 119964, 1>>, <<119966, 119967, 1>>, <<119970, 119970, 1>>,
      <<119973, 119974, 1>>, <<119977, 119980, 1>>, <<119982, 119993, 1>>,
      <<119995, 119997, 2>>, <<119998, 120003, 1>>, <<120005, 120069, 1>>,
      <<120071, 120074, 1>>, <<120077, 120084, 1>>, <<120086, 120092, 1>>,
      <<120094, 120121, 1>>, <<120123, 120126, 1>>, <<120128, 120132, 1>>,
      <<120134, 120134, 1>>, <<120138, 120144, 1>>, <<120146, 120485, 1>>,
      <<120488, 120512, 1>>, <<120514, 120538, 1>>, <<120540, 120570, 1>>,
      <<120572, 120596, 1>>, <<120598, 120628, 1>>, <<120630, 120654, 1>>,
      <<120656, 120686, 1>>, <<120688, 120712, 1>>, <<120714, 120744, 1>>,
      <<120746, 120770, 1>>, <<120772, 120779, 1>>, <<122624, 122633, 1>>,
      <<122635, 122654, 1>>, <<125184, 125251, 1>>, <<127280, 127305, 1>>,
      <<127312, 127337, 1>>, <<127344, 127369, 1>>>>

\* The lower case of one code point, out of context.
lower_char(c) ==
    IF c < 128 THEN IF 65 <= c /\ c <= 90 THEN c + 32 ELSE c
    ELSE IF in_ranges(c, LowerRanges)
    THEN LET r == CHOOSE r \in 1..Len(LowerRanges) :
                      /\ LowerRanges[r][1] <= c
                      /\ c <= LowerRanges[r][2]
                      /\ (c - LowerRanges[r][1]) % LowerRanges[r][3] = 0
         IN c + LowerRanges[r][4]
    ELSE c

\* A capital sigma at s[i] is final: a cased letter comes before it and none
\* after it, case-ignorable characters skipped on both sides.
final_sigma(s, i) ==
    LET before == {j \in 1..(i - 1) : ~in_ranges(s[j], CaseIgnorableRanges)}
        after == {j \in (i + 1)..Len(s) : ~in_ranges(s[j], CaseIgnorableRanges)}
    IN /\ before # {}
       /\ in_ranges(s[CHOOSE j \in before : \A k \in before : k <= j],
                    CasedRanges)
       /\ \/ after = {}
          \/ ~in_ranges(s[CHOOSE j \in after : \A k \in after : j <= k],
                        CasedRanges)

\* What s[i] contributes to s.lower(): capital sigma folds by its position,
\* capital I with dot above to i and a combining dot.
lower_at(s, i) ==
    IF s[i] = 931 THEN <<IF final_sigma(s, i) THEN 962 ELSE 963>>
    ELSE IF s[i] = 304 THEN <<105, 775>>
    ELSE <<lower_char(s[i])>>

RECURSIVE lower_from(_, _)
lower_from(s, i) ==
    IF i > Len(s) THEN <<>> ELSE lower_at(s, i) \o lower_from(s, i + 1)

\* str.lower()
Lower(s) == lower_from(s, 1)

\* The code points str.strip() removes (str.isspace()).
Whitespace ==
    {9, 10, 11, 12, 13, 28, 29, 30, 31, 32, 133, 160, 5760, 8232, 8233, 8239,
     8287, 12288} \cup 8192..8202

RECURSIVE LStrip(_)
LStrip(s) ==
    IF s # <<>> /\ Head(s) \in Whitespace THEN LStrip(Tail(s)) ELSE s

RECURSIVE RStrip(_)
RStrip(s) ==
    IF s # <<>> /\ s[Len(s)] \in Whitespace
    THEN RStrip(SubSeq(s, 1, Len(s) - 1)) ELSE s

\* str.strip()
Strip(s) == RStrip(LStrip(s))

\* The severities the code names.
Error == str("error")
Warning == str("warning")
Info == str("info")

\* _tokenize: the set of the words of a description.
_tokenize(desc) ==
    UNION {{desc[i][j] : j \in 1..Len(desc[i])} : i \in 1..Len(desc)}

\* _jaccard(a, b) >= threshold, the threshold in hundredths; 0.0 when a set is empty.
jaccard_at_least(a, b, threshold) ==
    IF a = {} \/ b = {} THEN 0 >= threshold
    ELSE 100 * Cardinality(a \cap b) >= threshold * Cardinality(a \cup b)

\* _is_anchored_to_changes: bisect_left finds the first changed line >= lo.
_is_anchored_to_changes(changed, line_range, window) ==
    LET lo == Max({1, line_range[1] - window})
        hi == line_range[2] + window
        ge == {l \in changed : l >= lo}
    IN ge # {} /\ Min(ge) <= hi

\* _severity_rank: s = (sev or "").strip().lower()
_severity_rank(sev) ==
    LET s == Lower(Strip(sev))
    IN CASE s = Error -> 3
         [] s = Warning -> 2
         [] OTHER -> 1

\* int(getattr(cfg, name, d) or d): a configured 0 is falsy and becomes d.
OrDefault(v, d) == IF v = 0 THEN d ELSE v

\* window = int(getattr(system, "manager_anchor_window", 5) or 5)
anchor_window(cfg) == OrDefault(cfg.manager_anchor_window, 5)

\* unanchored_cap = float(getattr(system, "manager_unanchored_confidence", 0.2) or 0.2)
unanchored_cap(cfg) == OrDefault(cfg.manager_unanchored_confidence, 2)

\* changed_lines_by_file.get(fp, [])
changed_of(changed, fp) ==
    IF fp \in DOMAIN changed THEN changed[fp] ELSE {}

\* One pass of the anchor loop: the items `it` adds to anchored_items.
anchor_step(it, changed, cfg) ==
    IF it.risk_type = SYNTAX_STATIC_ERRORS.value THEN <<it>>
    ELSE IF _is_anchored_to_changes(
                changed_of(changed, _normalize_path(it.file_path)),
                it.line_number, anchor_window(cfg))
    THEN <<it>>
    ELSE IF cfg.manager_drop_unanchored THEN <<>>
    ELSE <<RiskItem(it.risk_type, it.file_path, it.line_number,
                    it.description,
                    Min({it.confidence, unanchored_cap(cfg)}),
                    it.severity, None)>>

RECURSIVE anchor_filter(_, _, _)
\* The anchor loop of manager_node over raw_items: anchored_items, or the
\* exception the loop raises. Each pass first evaluates
\* RiskType.SYNTAX_STATIC_ERRORS for its comparison.
anchor_filter(raw_items, changed, cfg) ==
    IF raw_items = <<>> THEN [raised |-> FALSE, value |-> <<>>]
    ELSE IF SYNTAX_STATIC_ERRORS.raised THEN [raised |-> TRUE]
    ELSE LET rest == anchor_filter(Tail(raw_items), changed, cfg) IN
         IF rest.raised THEN [raised |-> TRUE]
         ELSE [raised |-> FALSE,
               value |-> anchor_step(Head(raw_items), changed, cfg)
                             \o rest.value]

\* The sort key of _merge_near_duplicates: (start, end, -confidence).
merge_key_less(x, y) ==
    \/ x.line_number[1] < y.line_number[1]
    \/ /\ x.line_number[1] = y.line_number[1]
       /\ \/ x.line_number[2] < y.line_number[2]
          \/ /\ x.line_number[2] = y.line_number[2]
             /\ x.confidence > y.confidence

RECURSIVE insert_by_merge_key(_, _)
\* x placed after every element that does not sort after it (sorted() is stable).
insert_by_merge_key(x, sorted) ==
    IF sorted = <<>> THEN <<x>>
    ELSE IF merge_key_less(x, Head(sorted)) THEN <<x>> \o sorted
    ELSE <<Head(sorted)>> \o insert_by_merge_key(x, Tail(sorted))

RECURSIVE sort_by_merge_key(_)
sort_by_merge_key(items) ==
    IF items = <<>> THEN <<>>
    ELSE insert_by_merge_key(items[Len(items)],
                             sort_by_merge_key(SubSeq(items, 1, Len(items) - 1)))

\* merge_line_window / merge_jaccard as manager_node reads them.
merge_line_window(cfg) == OrDefault(cfg.manager_merge_line_window, 5)
merge_jaccard(cfg) == OrDefault(cfg.manager_merge_jaccard, 75)

Abs(n) == IF n < 0 THEN -n ELSE n

\* A variant that keeps the confidence of the item being grown.
merge_pair_keeping_confidence(cur, it) ==
    RiskItem(cur.risk_type, cur.file_path,
             <<Min({cur.line_number[1], it.line_number[1]}),
               Max({cur.line_number[2], it.line_number[2]})>>,
             cur.description \o it.description,
             cur.confidence,
             IF _severity_rank(cur.severity) >= _severity_rank(it.severity)
             THEN cur.severity ELSE it.severity,
             None)

\* The item two near-duplicates merge into.
merge_pair(cur, it) ==
    RiskItem(cur.risk_type, cur.file_path,
             <<Min({cur.line_number[1], it.line_number[1]}),
               Max({cur.line_number[2], it.line_number[2]})>>,
             cur.description \o it.description,
             Max({cur.confidence, it.confidence}),
             IF _severity_rank(cur.severity) >= _severity_rank(it.severity)
             THEN cur.severity ELSE it.severity,
             None)

\* near and sim >= jaccard_threshold
should_merge(cur, it, line_window, jaccard_threshold) ==
    /\ Abs(it.line_number[1] - cur.line_number[2]) <= line_window
    /\ jaccard_at_least(_tokenize(cur.description), _tokenize(it.description),
                        jaccard_threshold)

RECURSIVE merge_scan(_, _, _, _)
\* The scan over one sorted group: cur is the item being grown.
merge_scan(cur, rest, line_window, jaccard_threshold) ==
    IF rest = <<>> THEN <<cur>>
    ELSE LET it == Head(rest) IN
         IF should_merge(cur, it, line_window, jaccard_threshold)
         THEN merge_scan(merge_pair(cur, it), Tail(rest), line_window,
                         jaccard_threshold)
         ELSE <<cur>> \o merge_scan(it, Tail(rest), line_window,
                                    jaccard_threshold)

\* The (file_path, risk_type) keys of by_key, in insertion order.
RECURSIVE keys_in_order(_, _)
keys_in_order(items, seen) ==
    IF items = <<>> THEN <<>>
    ELSE LET k == <<Head(items).file_path, Head(items).risk_type>> IN
         IF k \in seen THEN keys_in_order(Tail(items), seen)
         ELSE <<k>> \o keys_in_order(Tail(items), seen \cup {k})

group_of(items, k) ==
    SelectSeqBy(items, {i \in 1..Len(items) :
                           <<items[i].file_path, items[i].risk_type>> = k})

RECURSIVE merge_groups(_, _, _, _)
merge_groups(keys, items, line_window, jaccard_threshold) ==
    IF keys = <<>> THEN <<>>
    ELSE LET ordered == sort_by_merge_key(group_of(items, Head(keys))) IN
         merge_scan(Head(ordered), Tail(ordered), line_window, jaccard_threshold)
             \o merge_groups(Tail(keys), items, line_window, jaccard_threshold)

\* _merge_near_duplicates
_merge_near_duplicates(items, line_window, jaccard_threshold) ==
    merge_groups(keys_in_order(items, {}), items, line_window, jaccard_threshold)

\* The file paths of the model, in Python's string order
\* ("a/x.py" < "b/x.py" < "x.py" < "y.py").
PathOrder == << <<"a", "x.py">>, <<"b", "x.py">>, <<"x.py">>, <<"y.py">> >>
path_rank(fp) == CHOOSE i \in 1..Len(PathOrder) : PathOrder[i] = fp

\* The members the default weights of manager_node are keyed by, in the
\* order the dict display names them, and their weights in tenths.
DefaultWeightMembers ==
    <<[name |-> "SYNTAX_STATIC_ERRORS", weight |-> 14],
      [name |-> "CONCURRENCY_TIMING_CORRECTNESS", weight |-> 13],
      [name |-> "AUTHORIZATION_DATA_EXPOSURE", weight |-> 13],
      [name |-> "LIFECYCLE_STATE_CONSISTENCY", weight |-> 11],
      [name |-> "INTENT_SEMANTIC_CONSISTENCY", weight |-> 10],
      [name |-> "ROBUSTNESS_BOUNDARY_CONDITIONS", weight |-> 7]>>

\* The dict display of the default type weights: the dict, or the
\* AttributeError of a key RiskType has no member for.
default_type_weights ==
    IF \E i \in 1..Len(DefaultWeightMembers) :
           member(DefaultWeightMembers[i].name).raised
    THEN [raised |-> TRUE]
    ELSE [raised |-> FALSE,
          value |-> [t \in {member(DefaultWeightMembers[i].name).value :
                               i \in 1..Len(DefaultWeightMembers)} |->
                        LET i == CHOOSE i \in 1..Len(DefaultWeightMembers) :
                                    member(DefaultWeightMembers[i].name).value = t
                        IN DefaultWeightMembers[i].weight]]
default_severity_weights ==
    [v \in {Error, Warning, Info} |->
        CASE v = Error -> 13 [] v = Warning -> 10 [] OTHER -> 7]

\* type_weights as manager_node ends up with: the configured dict, or the
\* defaults when it is empty.
type_weights(cfg) ==
    IF DOMAIN cfg.manager_risk_type_weights = {} THEN default_type_weights
    ELSE [raised |-> FALSE, value |-> cfg.manager_risk_type_weights]
severity_weights(cfg) ==
    IF DOMAIN cfg.manager_severity_weights = {} THEN default_severity_weights
    ELSE cfg.manager_severity_weights

\* tw(it): float(type_weights.get(it.risk_type.value, 1.0)); kw holds the
\* keyword arguments of _budget_work_items.
tw(it, kw) ==
    IF it.risk_type \in DOMAIN kw.type_weights
    THEN kw.type_weights[it.risk_type] ELSE 10

\* sw(it): float(severity_weights.get((it.severity or "warning").lower(), 1.0))
sw(it, kw) ==
    LET key == Lower(IF it.severity = <<>> THEN Warning ELSE it.severity)
    IN IF key \in DOMAIN kw.severity_weights
       THEN kw.severity_weights[key] ELSE 10

\* The rounding of the double product (c/10 * t/10) * s/10, for a confidence
\* of c tenths (0..10) and weights of t and s tenths (0..20, weights up to
\* 2.0): ProductUlps[c + 1][t + 1][s + 1] is the number of doubles the
\* product, as IEEE 754 multiplication rounds it, lies above (below, when
\* negative) the double nearest c * t * s / 1000.
ProductUlps ==
    <<<<<<0,0,0,0,0,0,0,0,0,0,0,0,0,0,0,0,0,0,0,0,0>>,
       <<0,0,0,0,0,0,0,0,0,0,0,0,0,0,0,0,0,0,0,0,0>>,
       <<0,0,0,0,0,0,0,0,0,0,0,0,0,0,0,0,0,0,0,0,0>>,
       <<0,0,0,0,0,0,0,0,0,0,0,0,0,0,0,0,0,0,0,0,0>>,
       <<0,0,0,0,0,0,0,0,0,0,0,0,0,0,0,0,0,0,0,0,0>>,
       <<0,0,0,0,0,0,0,0,0,0,0,0,0,0,0,0,0,0,0,0,0>>,
       <<0,0,0,0,0,0,0,0,0,0,0,0,0,0,0,0,0,0,0,0,0>>,
       <<0,0,0,0,0,0,0,0,0,0,0,0,0,0,0,0,0,0,0,0,0>>,
       <<0,0,0,0,0,0,0,0,0,0,0,0,0,0,0,0,0,0,0,0,0>>,
       <<0,0,0,0,0,0,0,0,0,0,0,0,0,0,0,0,0,0,0,0,0>>,
       <<0,0,0,0,0,0,0,0,0,0,0,0,0,0,0,0,0,0,0,0,0>>,
       <<0,0,0,0,0,0,0,0,0,0,0,0,0,0,0,0,0,0,0,0,0>>,
       <<0,0,0,0,0,0,0,0,0,0,0,0,0,0,0,0,0,0,0,0,0>>,
       <<0,0,0,0,0,0,0,0,0,0,0,0,0,0,0,0,0,0,0,0,0>>,
       <<0,0,0,0,0,0,0,0,0,0,0,0,0,0,0,0,0,0,0,0,0>>,
       <<0,0,0,0,0,0,0,0,0,0,0,0,0,0,0,0,0,0,0,0,0>>,
       <<0,0,0,0,0,0,0,0,0,0,0,0,0,0,0,0,0,0,0,0,0>>,
       <<0,0,0,0,0,0,0,0,0,0,0,0,0,0,0,0,0,0,0,0,0>>,
       <<0,0,0,0,0,0,0,0,0,0,0,0,0,0,0,0,0,0,0,0,0>>,
       <<0,0,0,0,0,0,0,0,0,0,0,0,0,0,0,0,0,0,0,0,0>>,
       <<0,0,0,0,0,0,0,0,0,0,0,0,0,0,0,0,0,0,0,0,0>>>>,
      <<<<0,0,0,0,0,0,0,0,0,0,0,0,0,0,0,0,0,0,0,0,0>>,
       <<0,1,1,1,1,1,1,1,1,2,1,2,1,2,1,2,1,0,2,1,1>>,
       <<0,1,1,1,1,1,1,1,1,2,1,2,1,2,1,2,1,0,2,1,1>>,
       <<0,0,0,0,0,0,0,-1,0,0,0,0,0,0,-1,0,0,0,0,-1,0>>,
       <<0,1,1,1,1,1,1,1,1,2,1,2,1,2,1,2,1,0,2,1,1>>,
       <<0,1,1,0,1,0,0,-1,1,1,0,1,0,0,-1,1,1,0,1,0,0>>,
       <<0,0,0,0,0,0,0,-1,0,0,0,0,0,0,-1,0,0,0,0,-1,0>>,
       <<0,-1,-1,-1,-1,-1,-1,-1,-1,0,-1,0,-1,0,-1,-1,-1,-1,0,-1,-1>>,
       <<0,1,1,1,1,1,1,1,1,2,1,2,1,2,1,2,1,0,2,1,1>>,
       <<0,1,1,1,1,1,1,0,1,1,1,1,1,1,0,0,1,1,1,0,1>>,
       <<0,1,1,0,1,0,0,-1,1,1,0,1,0,0,-1,1,1,0,1,0,0>>,
       <<0,2,2,0,2,1,0,0,2,1,1,2,0,1,0,1,2,1,1,1,1>>,
       <<0,0,0,0,0,0,0,-1,0,0,0,0,0,0,-1,0,0,0,0,-1,0>>,
       <<0,1,1,0,1,0,0,0,1,0,0,1,0,0,0,0,1,0,0,0,0>>,
       <<0,-1,-1,-1,-1,-1,-1,-1,-1,0,-1,0,-1,0,-1,-1,-1,-1,0,-1,-1>>,
       <<0,2,2,1,2,1,1,1,2,1,1,1,1,1,1,1,2,0,1,1,1>>,
       <<0,1,1,1,1,1,1,1,1,2,1,2,1,2,1,2,1,0,2,1,1>>,
       <<0,0,0,1,0,0,1,0,0,1,0,1,1,1,0,0,0,1,1,0,0>>,
       <<0,1,1,1,1,1,1,0,1,1,1,1,1,1,0,0,1,1,1,0,1>>,
       <<0,1,1,-1,1,0,-1,-1,1,0,0,1,-1,1,-1,1,1,0,0,0,0>>,
       <<0,1,1,0,1,0,0,-1,1,1,0,1,0,0,-1,1,1,0,1,0,0>>>>,
      <<<<0,0,0,0,0,0,0,0,0,0,0,0,0,0,0,0,0,0,0,0,0>>,
       <<0,1,1,1,1,1,1,1,1,2,1,2,1,2,1,2,1,0,2,1,1>>,
       <<0,1,1,1,1,1,1,1,1,2,1,2,1,2,1,2,1,0,2,1,1>>,
       <<0,0,0,0,0,0,0,-1,0,0,0,0,0,0,-1,0,0,0,0,-1,0>>,
       <<0,1,1,1,1,1,1,1,1,2,1,2,1,2,1,2,1,0,2,1,1>>,
       <<0,1,1,0,1,0,0,-1,1,1,0,1,0,0,-1,1,1,0,1,0,0>>,
       <<0,0,0,0,0,0,0,-1,0,0,0,0,0,0,-1,0,0,0,0,-1,0>>,
       <<0,-1,-1,-1,-1,-1,-1,-1,-1,0,-1,0,-1,0,-1,-1,-1,-1,0,-1,-1>>,
       <<0,1,1,1,1,1,1,1,1,2,1,2,1,2,1,2,1,0,2,1,1>>,
       <<0,1,1,1,1,1,1,0,1,1,1,1,1,1,0,0,1,1,1,0,1>>,
       <<0,1,1,0,1,0,0,-1,1,1,0,1,0,0,-1,1,1,0,1,0,0>>,
       <<0,2,2,0,2,1,0,0,2,1,1,2,0,1,0,1,2,1,1,1,1>>,
       <<0,0,0,0,0,0,0,-1,0,0,0,0,0,0,-1,0,0,0,0,-1,0>>,
       <<0,1,1,0,1,0,0,0,1,0,0,1,0,0,0,0,1,0,0,0,0>>,
       <<0,-1,-1,-1,-1,-1,-1,-1,-1,0,-1,0,-1,0,-1,-1,-1,-1,0,-1,-1>>,
       <<0,2,2,1,2,1,1,1,2,1,1,1,1,1,1,1,2,0,1,1,1>>,
       <<0,1,1,1,1,1,1,1,1,2,1,2,1,2,1,2,1,0,2,1,1>>,
       <<0,0,0,1,0,0,1,0,0,1,0,1,1,1,0,0,0,1,1,0,0>>,
       <<0,1,1,1,1,1,1,0,1,1,1,1,1,1,0,0,1,1,1,0,1>>,
       <<0,1,1,-1,1,0,-1,-1,1,0,0,1,-1,1,-1,1,1,0,0,0,0>>,
       <<0,1,1,0,1,0,0,-1,1,1,0,1,0,0,-1,1,1,0,1,0,0>>>>,
      <<<<0,0,0,0,0,0,0,0,0,0,0,0,0,0,0,0,0,0,0,0,0>>,
       <<0,0,0,0,0,0,0,-1,0,0,0,0,0,0,-1,0,0,0,0,-1,0>>,
       <<0,0,0,0,0,0,0,-1,0,0,0,0,0,0,-1,0,0,0,0,-1,0>>,
       <<0,0,0,0,0,0,0,0,0,0,0,0,0,-1,0,0,0,0,0,-1,0>>,
       <<0,0,0,0,0,0,0,-1,0,0,0,0,0,0,-1,0,0,0,0,-1,0>>,
       <<0,0,0,0,0,0,0,0,0,0,0,0,0,0,0,-1,0,0,0,0,0>>,
       <<0,0,0,0,0,0,0,0,0,0,0,0,0,-1,0,0,0,0,0,-1,0>>,
       <<0,0,0,0,0,0,0,0,0,0,0,0,0,0,0,0,0,0,0,-1,0>>,
       <<0,0,0,0,0,0,0,-1,0,0,0,0,0,0,-1,0,0,0,0,-1,0>>,
       <<0,1,1,0,1,0,0,0,1,1,0,1,0,1,0,0,1,0,1,0,0>>,
       <<0,0,0,0,0,0,0,0,0,0,0,0,0,0,0,-1,0,0,0,0,0>>,
       <<0,0,0,0,0,0,0,-1,0,1,0,1,0,1,-1,0,0,0,1,0,0>>,
       <<0,0,0,0,0,0,0,0,0,0,0,0,0,-1,0,0,0,0,0,-1,0>>,
       <<0,1,1,-1,1,0,-1,-1,1,1,0,1,-1,0,-1,0,1,0,1,0,0>>,
       <<0,0,0,0,0,0,0,0,0,0,0,0,0,0,0,0,0,0,0,-1,0>>,
       <<0,0,0,-1,0,-1,-1,-1,0,-1,-1,0,-1,0,-1,-1,0,-1,-1,-1,-1>>,
       <<0,0,0,0,0,0,0,-1,0,0,0,0,0,0,-1,0,0,0,0,-1,0>>,
       <<0,1,1,0,1,0,0,0,1,0,0,0,0,0,0,0,1,0,0,0,0>>,
       <<0,1,1,0,1,0,0,0,1,1,0,1,0,1,0,0,1,0,1,0,0>>,
       <<0,-1,-1,-1,-1,0,-1,-1,-1,0,0,0,-1,0,-1,0,-1,-1,0,0,0>>,
       <<0,0,0,0,0,0,0,0,0,0,0,0,0,0,0,-1,0,0,0,0,0>>>>,
      <<<<0,0,0,0,0,0,0,0,0,0,0,0,0,0,0,0,0,0,0,0,0>>,
       <<0,1,1,1,1,1,1,1,1,2,1,2,1,2,1,2,1,0,2,1,1>>,
       <<0,1,1,1,1,1,1,1,1,2,1,2,1,2,1,2,1,0,2,1,1>>,
       <<0,0,0,0,0,0,0,-1,0,0,0,0,0,0,-1,0,0,0,0,-1,0>>,
       <<0,1,1,1,1,1,1,1,1,2,1,2,1,2,1,2,1,0,2,1,1>>,
       <<0,1,1,0,1,0,0,-1,1,1,0,1,0,0,-1,1,1,0,1,0,0>>,
       <<0,0,0,0,0,0,0,-1,0,0,0,0,0,0,-1,0,0,0,0,-1,0>>,
       <<0,-1,-1,-1,-1,-1,-1,-1,-1,0,-1,0,-1,0,-1,-1,-1,-1,0,-1,-1>>,
       <<0,1,1,1,1,1,1,1,1,2,1,2,1,2,1,2,1,0,2,1,1>>,
       <<0,1,1,1,1,1,1,0,1,1,1,1,1,1,0,0,1,1,1,0,1>>,
       <<0,1,1,0,1,0,0,-1,1,1,0,1,0,0,-1,1,1,0,1,0,0>>,
       <<0,2,2,0,2,1,0,0,2,1,1,2,0,1,0,1,2,1,1,1,1>>,
       <<0,0,0,0,0,0,0,-1,0,0,0,0,0,0,-1,0,0,0,0,-1,0>>,
       <<0,1,1,0,1,0,0,0,1,0,0,1,0,0,0,0,1,0,0,0,0>>,
       <<0,-1,-1,-1,-1,-1,-1,-1,-1,0,-1,0,-1,0,-1,-1,-1,-1,0,-1,-1>>,
       <<0,2,2,1,2,1,1,1,2,1,1,1,1,1,1,1,2,0,1,1,1>>,
       <<0,1,1,1,1,1,1,1,1,2,1,2,1,2,1,2,1,0,2,1,1>>,
       <<0,0,0,1,0,0,1,0,0,1,0,1,1,1,0,0,0,1,1,0,0>>,
       <<0,1,1,1,1,1,1,0,1,1,1,1,1,1,0,0,1,1,1,0,1>>,
       <<0,1,1,-1,1,0,-1,-1,1,0,0,1,-1,1,-1,1,1,0,0,0,0>>,
       <<0,1,1,0,1,0,0,-1,1,1,0,1,0,0,-1,1,1,0,1,0,0>>>>,
      <<<<0,0,0,0,0,0,0,0,0,0,0,0,0,0,0,0,0,0,0,0,0>>,
       <<0,1,1,0,1,0,0,-1,1,1,0,1,0,0,-1,1,1,0,1,0,0>>,
       <<0,1,1,0,1,0,0,-1,1,1,0,1,0,0,-1,1,1,0,1,0,0>>,
       <<0,0,0,0,0,0,0,0,0,0,0,0,0,0,0,-1,0,0,0,0,0>>,
       <<0,1,1,0,1,0,0,-1,1,1,0,1,0,0,-1,1,1,0,1,0,0>>,
       <<0,0,0,0,0,0,0,0,0,0,0,0,0,0,0,0,0,0,0,0,0>>,
       <<0,0,0,0,0,0,0,0,0,0,0,0,0,0,0,-1,0,0,0,0,0>>,
       <<0,-1,-1,0,-1,0,0,-1,-1,0,0,0,0,-1,-1,-1,-1,0,0,-1,0>>,
       <<0,1,1,0,1,0,0,-1,1,1,0,1,0,0,-1,1,1,0,1,0,0>>,
       <<0,1,1,0,1,0,0,0,1,0,0,1,0,1,0,0,1,0,0,0,0>>,
       <<0,0,0,0,0,0,0,0,0,0,0,0,0,0,0,0,0,0,0,0,0>>,
       <<0,1,1,0,1,0,0,0,1,1,0,1,0,1,0,1,1,0,1,0,0>>,
       <<0,0,0,0,0,0,0,0,0,0,0,0,0,0,0,-1,0,0,0,0,0>>,
       <<0,0,0,0,0,0,0,-1,0,1,0,1,0,1,-1,1,0,0,1,-1,0>>,
       <<0,-1,-1,0,-1,0,0,-1,-1,0,0,0,0,-1,-1,-1,-1,0,0,-1,0>>,
       <<0,1,1,-1,1,0,-1,-1,1,0,0,1,-1,1,-1,0,1,0,0,-1,0>>,
       <<0,1,1,0,1,0,0,-1,1,1,0,1,0,0,-1,1,1,0,1,0,0>>,
       <<0,0,0,0,0,0,0,0,0,0,0,0,0,0,0,0,0,-1,0,0,0>>,
       <<0,1,1,0,1,0,0,0,1,0,0,1,0,1,0,0,1,0,0,0,0>>,
       <<0,0,0,0,0,0,0,-1,0,0,0,0,0,-1,-1,-1,0,0,0,0,0>>,
       <<0,0,0,0,0,0,0,0,0,0,0,0,0,0,0,0,0,0,0,0,0>>>>,
      <<<<0,0,0,0,0,0,0,0,0,0,0,0,0,0,0,0,0,0,0,0,0>>,
       <<0,0,0,0,0,0,0,-1,0,0,0,0,0,0,-1,0,0,0,0,-1,0>>,
       <<0,0,0,0,0,0,0,-1,0,0,0,0,0,0,-1,0,0,0,0,-1,0>>,
       <<0,0,0,0,0,0,0,0,0,0,0,0,0,-1,0,0,0,0,0,-1,0>>,
       <<0,0,0,0,0,0,0,-1,0,0,0,0,0,0,-1,0,0,0,0,-1,0>>,
       <<0,0,0,0,0,0,0,0,0,0,0,0,0,0,0,-1,0,0,0,0,0>>,
       <<0,0,0,0,0,0,0,0,0,0,0,0,0,-1,0,0,0,0,0,-1,0>>,
       <<0,0,0,0,0,0,0,0,0,0,0,0,0,0,0,0,0,0,0,-1,0>>,
       <<0,0,0,0,0,0,0,-1,0,0,0,0,0,0,-1,0,0,0,0,-1,0>>,
       <<0,1,1,0,1,0,0,0,1,1,0,1,0,1,0,0,1,0,1,0,0>>,
       <<0,0,0,0,0,0,0,0,0,0,0,0,0,0,0,-1,0,0,0,0,0>>,
       <<0,0,0,0,0,0,0,-1,0,1,0,1,0,1,-1,0,0,0,1,0,0>>,
       <<0,0,0,0,0,0,0,0,0,0,0,0,0,-1,0,0,0,0,0,-1,0>>,
       <<0,1,1,-1,1,0,-1,-1,1,1,0,1,-1,0,-1,0,1,0,1,0,0>>,
       <<0,0,0,0,0,0,0,0,0,0,0,0,0,0,0,0,0,0,0,-1,0>>,
       <<0,0,0,-1,0,-1,-1,-1,0,-1,-1,0,-1,0,-1,-1,0,-1,-1,-1,-1>>,
       <<0,0,0,0,0,0,0,-1,0,0,0,0,0,0,-1,0,0,0,0,-1,0>>,
       <<0,1,1,0,1,0,0,0,1,0,0,0,0,0,0,0,1,0,0,0,0>>,
       <<0,1,1,0,1,0,0,0,1,1,0,1,0,1,0,0,1,0,1,0,0>>,
       <<0,-1,-1,-1,-1,0,-1,-1,-1,0,0,0,-1,0,-1,0,-1,-1,0,0,0>>,
       <<0,0,0,0,0,0,0,0,0,0,0,0,0,0,0,-1,0,0,0,0,0>>>>,
      <<<<0,0,0,0,0,0,0,0,0,0,0,0,0,0,0,0,0,0,0,0,0>>,
       <<0,-1,-1,-1,-1,-1,-1,-1,-1,0,-1,0,-1,0,-1,-1,-1,-1,0,-1,-1>>,
       <<0,-1,-1,-1,-1,-1,-1,-1,-1,0,-1,0,-1,0,-1,-1,-1,-1,0,-1,-1>>,
       <<0,0,0,0,0,0,0,0,0,0,0,0,0,0,0,0,0,0,0,-1,0>>,
       <<0,-1,-1,-1,-1,-1,-1,-1,-1,0,-1,0,-1,0,-1,-1,-1,-1,0,-1,-1>>,
       <<0,-1,-1,0,-1,0,0,-1,-1,0,0,0,0,-1,-1,-1,-1,0,0,-1,0>>,
       <<0,0,0,0,0,0,0,0,0,0,0,0,0,0,0,0,0,0,0,-1,0>>,
       <<0,-1,-1,-1,-1,-1,-1,-2,-1,-1,-1,-1,-1,-1,-2,-1,-1,-1,-1,-2,-1>>,
       <<0,-1,-1,-1,-1,-1,-1,-1,-1,0,-1,0,-1,0,-1,-1,-1,-1,0,-1,-1>>,
       <<0,0,0,0,0,0,0,-1,0,1,0,1,0,1,-1,1,0,0,1,-1,0>>,
       <<0,-1,-1,0,-1,0,0,-1,-1,0,0,0,0,-1,-1,-1,-1,0,0,-1,0>>,
       <<0,1,1,-1,1,0,-1,-1,1,1,0,1,-1,1,-1,0,1,0,1,-1,0>>,
       <<0,0,0,0,0,0,0,0,0,0,0,0,0,0,0,0,0,0,0,-1,0>>,
       <<0,0,0,-1,0,-1,-1,-1,0,0,-1,0,-1,-1,-1,-1,0,0,0,-1,-1>>,
       <<0,-1,-1,-1,-1,-1,-1,-2,-1,-1,-1,-1,-1,-1,-2,-1,-1,-1,-1,-2,-1>>,
       <<0,-1,-1,-1,-1,-1,-1,-1,-1,-1,-1,-1,-1,-1,-1,-1,-1,-1,-1,-2,-1>>,
       <<0,-1,-1,-1,-1,-1,-1,-1,-1,0,-1,0,-1,0,-1,-1,-1,-1,0,-1,-1>>,
       <<0,0,0,0,0,0,0,0,0,0,0,0,0,0,0,0,0,-1,0,-1,0>>,
       <<0,0,0,0,0,0,0,-1,0,1,0,1,0,1,-1,1,0,0,1,-1,0>>,
       <<0,-1,-1,-1,-1,-1,-1,-2,-1,-1,-1,-1,-1,-1,-2,-2,-1,-1,-1,-1,-1>>,
       <<0,-1,-1,0,-1,0,0,-1,-1,0,0,0,0,-1,-1,-1,-1,0,0,-1,0>>>>,
      <<<<0,0,0,0,0,0,0,0,0,0,0,0,0,0,0,0,0,0,0,0,0>>,
       <<0,1,1,1,1,1,1,1,1,2,1,2,1,2,1,2,1,0,2,1,1>>,
       <<0,1,1,1,1,1,1,1,1,2,1,2,1,2,1,2,1,0,2,1,1>>,
       <<0,0,0,0,0,0,0,-1,0,0,0,0,0,0,-1,0,0,0,0,-1,0>>,
       <<0,1,1,1,1,1,1,1,1,2,1,2,1,2,1,2,1,0,2,1,1>>,
       <<0,1,1,0,1,0,0,-1,1,1,0,1,0,0,-1,1,1,0,1,0,0>>,
       <<0,0,0,0,0,0,0,-1,0,0,0,0,0,0,-1,0,0,0,0,-1,0>>,
       <<0,-1,-1,-1,-1,-1,-1,-1,-1,0,-1,0,-1,0,-1,-1,-1,-1,0,-1,-1>>,
       <<0,1,1,1,1,1,1,1,1,2,1,2,1,2,1,2,1,0,2,1,1>>,
       <<0,1,1,1,1,1,1,0,1,1,1,1,1,1,0,0,1,1,1,0,1>>,
       <<0,1,1,0,1,0,0,-1,1,1,0,1,0,0,-1,1,1,0,1,0,0>>,
       <<0,2,2,0,2,1,0,0,2,1,1,2,0,1,0,1,2,1,1,1,1>>,
       <<0,0,0,0,0,0,0,-1,0,0,0,0,0,0,-1,0,0,0,0,-1,0>>,
       <<0,1,1,0,1,0,0,0,1,0,0,1,0,0,0,0,1,0,0,0,0>>,
       <<0,-1,-1,-1,-1,-1,-1,-1,-1,0,-1,0,-1,0,-1,-1,-1,-1,0,-1,-1>>,
       <<0,2,2,1,2,1,1,1,2,1,1,1,1,1,1,1,2,0,1,1,1>>,
       <<0,1,1,1,1,1,1,1,1,2,1,2,1,2,1,2,1,0,2,1,1>>,
       <<0,0,0,1,0,0,1,0,0,1,0,1,1,1,0,0,0,1,1,0,0>>,
       <<0,1,1,1,1,1,1,0,1,1,1,1,1,1,0,0,1,1,1,0,1>>,
       <<0,1,1,-1,1,0,-1,-1,1,0,0,1,-1,1,-1,1,1,0,0,0,0>>,
       <<0,1,1,0,1,0,0,-1,1,1,0,1,0,0,-1,1,1,0,1,0,0>>>>,
      <<<<0,0,0,0,0,0,0,0,0,0,0,0,0,0,0,0,0,0,0,0,0>>,
       <<0,1,1,1,1,1,1,0,1,1,1,1,1,1,0,0,1,1,1,0,1>>,
       <<0,1,1,1,1,1,1,0,1,1,1,1,1,1,0,0,1,1,1,0,1>>,
       <<0,1,1,0,1,0,0,0,1,1,0,1,0,1,0,0,1,0,1,0,0>>,
       <<0,1,1,1,1,1,1,0,1,1,1,1,1,1,0,0,1,1,1,0,1>>,
       <<0,1,1,0,1,0,0,0,1,0,0,1,0,1,0,0,1,0,0,0,0>>,
       <<0,1,1,0,1,0,0,0,1,1,0,1,0,1,0,0,1,0,1,0,0>>,
       <<0,0,0,0,0,0,0,-1,0,1,0,1,0,1,-1,1,0,0,1,-1,0>>,
       <<0,1,1,1,1,1,1,0,1,1,1,1,1,1,0,0,1,1,1,0,1>>,
       <<0,1,1,0,1,0,0,0,1,1,0,1,0,1,0,0,1,0,1,0,0>>,
       <<0,1,1,0,1,0,0,0,1,0,0,1,0,1,0,0,1,0,0,0,0>>,
       <<0,1,1,1,1,1,1,1,1,1,1,1,1,1,1,0,1,0,1,0,1>>,
       <<0,1,1,0,1,0,0,0,1,1,0,1,0,1,0,0,1,0,1,0,0>>,
       <<0,1,1,1,1,1,1,1,1,1,1,2,1,2,1,2,1,0,1,1,1>>,
       <<0,0,0,0,0,0,0,-1,0,1,0,1,0,1,-1,1,0,0,1,-1,0>>,
       <<0,0,0,0,0,0,0,0,0,0,0,1,0,1,0,1,0,0,0,0,0>>,
       <<0,1,1,1,1,1,1,0,1,1,1,1,1,1,0,0,1,1,1,0,1>>,
       <<0,1,1,-1,1,0,-1,0,1,0,0,1,-1,0,0,0,1,0,0,0,0>>,
       <<0,1,1,0,1,0,0,0,1,1,0,1,0,1,0,0,1,0,1,0,0>>,
       <<0,0,0,0,0,0,0,-1,0,0,0,0,0,0,-1,0,0,0,0,-1,0>>,
       <<0,1,1,0,1,0,0,0,1,0,0,1,0,1,0,0,1,0,0,0,0>>>>,
      <<<<0,0,0,0,0,0,0,0,0,0,0,0,0,0,0,0,0,0,0,0,0>>,
       <<0,1,1,0,1,0,0,-1,1,1,0,1,0,0,-1,1,1,0,1,0,0>>,
       <<0,1,1,0,1,0,0,-1,1,1,0,1,0,0,-1,1,1,0,1,0,0>>,
       <<0,0,0,0,0,0,0,0,0,0,0,0,0,0,0,-1,0,0,0,0,0>>,
       <<0,1,1,0,1,0,0,-1,1,1,0,1,0,0,-1,1,1,0,1,0,0>>,
       <<0,0,0,0,0,0,0,0,0,0,0,0,0,0,0,0,0,0,0,0,0>>,
       <<0,0,0,0,0,0,0,0,0,0,0,0,0,0,0,-1,0,0,0,0,0>>,
       <<0,-1,-1,0,-1,0,0,-1,-1,0,0,0,0,-1,-1,-1,-1,0,0,-1,0>>,
       <<0,1,1,0,1,0,0,-1,1,1,0,1,0,0,-1,1,1,0,1,0,0>>,
       <<0,1,1,0,1,0,0,0,1,0,0,1,0,1,0,0,1,0,0,0,0>>,
       <<0,0,0,0,0,0,0,0,0,0,0,0,0,0,0,0,0,0,0,0,0>>,
       <<0,1,1,0,1,0,0,0,1,1,0,1,0,1,0,1,1,0,1,0,0>>,
       <<0,0,0,0,0,0,0,0,0,0,0,0,0,0,0,-1,0,0,0,0,0>>,
       <<0,0,0,0,0,0,0,-1,0,1,0,1,0,1,-1,1,0,0,1,-1,0>>,
       <<0,-1,-1,0,-1,0,0,-1,-1,0,0,0,0,-1,-1,-1,-1,0,0,-1,0>>,
       <<0,1,1,-1,1,0,-1,-1,1,0,0,1,-1,1,-1,0,1,0,0,-1,0>>,
       <<0,1,1,0,1,0,0,-1,1,1,0,1,0,0,-1,1,1,0,1,0,0>>,
       <<0,0,0,0,0,0,0,0,0,0,0,0,0,0,0,0,0,-1,0,0,0>>,
       <<0,1,1,0,1,0,0,0,1,0,0,1,0,1,0,0,1,0,0,0,0>>,
       <<0,0,0,0,0,0,0,-1,0,0,0,0,0,-1,-1,-1,0,0,0,0,0>>,
       <<0,0,0,0,0,0,0,0,0,0,0,0,0,0,0,0,0,0,0,0,0>>>>>>

\* it.confidence * tw(it) * sw(it), a double: the exact product in
\* thousandths and the rounding of the double product.
score(it, kw) ==
    LET c == it.confidence
        t == tw(it, kw)
        s == sw(it, kw)
    IN [exact |-> c * t * s, ulps |-> ProductUlps[c + 1][t + 1][s + 1]]

\* a > b on two such doubles: different exact products are further apart
\* than any rounding, equal ones are told apart by their rounding.
float_greater(a, b) ==
    \/ a.exact > b.exact
    \/ a.exact = b.exact /\ a.ulps > b.ulps

\* A variant of the sort key without the severity rank:
\* (-score, file_path, line_number).
budget_key_less_without_severity(x, y, kw) ==
    \/ float_greater(score(x, kw), score(y, kw))
    \/ /\ score(x, kw) = score(y, kw)
       /\ \/ path_rank(x.file_path) < path_rank(y.file_path)
          \/ /\ x.file_path = y.file_path
             /\ \/ x.line_number[1] < y.line_number[1]
                \/ /\ x.line_number[1] = y.line_number[1]
                   /\ x.line_number[2] < y.line_number[2]

\* The sort key of _budget_work_items:
\* (-score, -severity rank, file_path, line_number).
budget_key_less(x, y, kw) ==
    \/ float_greater(score(x, kw), score(y, kw))
    \/ /\ score(x, kw) = score(y, kw)
       /\ \/ _severity_rank(x.severity) > _severity_rank(y.severity)
          \/ /\ _severity_rank(x.severity) = _severity_rank(y.severity)
             /\ \/ path_rank(x.file_path) < path_rank(y.file_path)
                \/ /\ x.file_path = y.file_path
                   /\ \/ x.line_number[1] < y.line_number[1]
                      \/ /\ x.line_number[1] = y.line_number[1]
                         /\ x.line_number[2] < y.line_number[2]

RECURSIVE insert_by_budget_key(_, _, _)
insert_by_budget_key(x, sorted, kw) ==
    IF sorted = <<>> THEN <<x>>
    ELSE IF budget_key_less(x, Head(sorted), kw) THEN <<x>> \o sorted
    ELSE <<Head(sorted)>> \o insert_by_budget_key(x, Tail(sorted), kw)

RECURSIVE sort_by_budget_key(_, _)
sort_by_budget_key(items, kw) ==
    IF items = <<>> THEN <<>>
    ELSE insert_by_budget_key(items[Len(items)],
             sort_by_budget_key(SubSeq(items, 1, Len(items) - 1), kw), kw)

count_file(selected, fp) ==
    Cardinality({i \in 1..Len(selected) : selected[i].file_path = fp})
count_type(selected, rt) ==
    Cardinality({i \in 1..Len(selected) : selected[i].risk_type = rt})

\* A mutant: no file is ever at its cap.
per_file_never_full(selected, it, kw) == FALSE

\* per_file[it.file_path] >= int(max_per_file)
per_file_full(selected, it, kw) ==
    count_file(selected, it.file_path) >= kw.max_per_file

RECURSIVE budget_pick(_, _, _)
\* The greedy loop of _budget_work_items over the scored items.
budget_pick(scored, selected, kw) ==
    IF scored = <<>> THEN selected
    ELSE LET it == Head(scored)
             caps == kw.max_per_type
         IN IF Len(selected) >= kw.max_total THEN selected
            ELSE IF per_file_full(selected, it, kw)
            THEN budget_pick(Tail(scored), selected, kw)
            ELSE IF /\ it.risk_type \in DOMAIN caps
                    /\ count_type(selected, it.risk_type) >= caps[it.risk_type]
            THEN budget_pick(Tail(scored), selected, kw)
            ELSE budget_pick(Tail(scored), Append(selected, it), kw)

\* _budget_work_items(items, max_total=, max_per_file=, max_per_type=,
\* type_weights=, severity_weights=), its keyword arguments in kw.
_budget_work_items(items, kw) ==
    budget_pick(sort_by_budget_key(items, kw), <<>>, kw)

RECURSIVE types_in_order(_, _)
types_in_order(items, seen) ==
    IF items = <<>> THEN <<>>
    ELSE LET k == Head(items).risk_type IN
         IF k \in seen THEN types_in_order(Tail(items), seen)
         ELSE <<k>> \o types_in_order(Tail(items), seen \cup {k})

\* _group_tasks_by_risk_type: an ordered dict, a (key, items) pair per type.
_group_tasks_by_risk_type(wl) ==
    LET ks == types_in_order(wl, {}) IN
    [n \in 1..Len(ks) |->
        [key |-> ks[n],
         items |-> SelectSeqBy(wl, {i \in 1..Len(wl) : wl[i].risk_type = ks[n]})]]

RECURSIVE _convert_lint_errors_to_risk_items(_)
\* _convert_lint_errors_to_risk_items: one syntax item per lint error; an
\* error whose try block raises (the lookup of the risk type, or RiskItem
\* rejecting its arguments) is skipped.
_convert_lint_errors_to_risk_items(errs) ==
    IF errs = <<>> THEN <<>>
    ELSE LET error == Head(errs)
             line_num == IF error.line = 0 THEN 1 ELSE error.line
             args == RiskItem(SYNTAX_STATIC_ERRORS.value, error.file,
                              JsonList(<<line_num, line_num>>),
                              error.description, 8, error.severity, None)
         IN  (IF SYNTAX_STATIC_ERRORS.raised THEN <<>>
              ELSE IF construction_raises(args) THEN <<>>
              ELSE <<constructed(args)>>)
                 \o _convert_lint_errors_to_risk_items(Tail(errs))

RECURSIVE collect_risks(_)
\* raw_items.extend(file_analysis.potential_risks) over file_analyses.
collect_risks(fas) ==
    IF fas = <<>> THEN <<>>
    ELSE Head(fas).potential_risks \o collect_risks(Tail(fas))

\* max_total / max_per_file as manager_node reads them.
max_total(cfg) == OrDefault(cfg.manager_max_work_items_total, 30)
max_per_file(cfg) == OrDefault(cfg.manager_max_items_per_file, 6)

\* The try body of manager_node: the work list it builds, or the exception
\* it raises; each step's result is bound before the next step uses it.
manager_work_list(cfg, fas, errs, changed) ==
    LET raw_items == collect_risks(fas)
                         \o _convert_lint_errors_to_risk_items(errs)
        anchored_items == anchor_filter(raw_items, changed, cfg)
    IN IF anchored_items.raised THEN [raised |-> TRUE]
       ELSE LET merged_items ==
                    _merge_near_duplicates(anchored_items.value,
                                           merge_line_window(cfg),
                                           merge_jaccard(cfg))
            IN IF type_weights(cfg).raised THEN [raised |-> TRUE]
               ELSE [raised |-> FALSE,
                     value |-> _budget_work_items(merged_items,
                         [max_total |-> max_total(cfg),
                          max_per_file |-> max_per_file(cfg),
                          max_per_type |-> cfg.manager_max_items_per_risk_type,
                          type_weights |-> type_weights(cfg).value,
                          severity_weights |-> severity_weights(cfg)])]

\* A mutant: the try body of manager_node has no except clause.
manager_node_without_except(meta, cfg, fas, errs, changed) ==
    IF ~meta.llm \/ fas = <<>>
    THEN Ok([work_list |-> <<>>, expert_tasks |-> <<>>])
    ELSE LET body == manager_work_list(cfg, fas, errs, changed) IN
         IF body.raised THEN [raised |-> TRUE]
         ELSE Ok([work_list |-> body.value,
                  expert_tasks |-> _group_tasks_by_risk_type(body.value)])

\* manager_node: what it returns; an exception in the try body is caught and
\* answered with empty lists.
manager_node(meta, cfg, fas, errs, changed) ==
    IF ~meta.llm \/ fas = <<>>
    THEN Ok([work_list |-> <<>>, expert_tasks |-> <<>>])
    ELSE LET body == manager_work_list(cfg, fas, errs, changed) IN
         IF body.raised
         THEN Ok([work_list |-> <<>>, expert_tasks |-> <<>>])
         ELSE Ok([work_list |-> body.value,
                  expert_tasks |-> _group_tasks_by_risk_type(body.value)])

\* A mutant: the route always enters the expert stage.
route_always_to_experts(wl, tasks) == "expert_execution"

\* route_to_experts
route_to_experts(wl, tasks) ==
    IF wl = <<>> \/ tasks = <<>> THEN "reporter" ELSE "expert_execution"

\* The manager node as a graph step, and the conditional edge that follows it.
ManagerNode ==
    /\ stage = "manager"
    /\ \E out \in {manager_node(metadata, config, file_analyses, lint_errors,
                                  changed_lines)} :
       IF out.raised THEN DriverExcept
       ELSE /\ work_list' = out.work_list
            /\ expert_tasks' = out.expert_tasks
            /\ stage' = route_to_experts(out.work_list, out.expert_tasks)
            /\ ran' = Append(ran, "manager")
            /\ UNCHANGED <<metadata, config, changed_files, changed_lines,
                           file_analyses, lint_errors, expert_results,
                           confirmed_issues, final_report, notRunVars>>

-----------------------------------------------------------------------------
(* Expert runtime (agents/expert_graph_runtime.py, agents/expert_graph.py) *)
(*                                                                         *)
(* A message is a record with its type ("human", "ai", "tool", "system");  *)
(* an "ai" message carries the number of tool calls it requests, a "tool"  *)
(* message whether its content is a no-signal result.                      *)

HumanMessage == [type |-> "human"]
AIMessage(n) == [type |-> "ai", tool_calls |-> n]
ToolMessage(ns) == [type |-> "tool", no_signal |-> ns]

\* An assistant message without tool calls, with its content as json.loads
\* reads it (the kinds of the verdict parser's responses).
FinalAIMessage(content) == [type |-> "ai", tool_calls |-> 0, content |-> content]

\* A JSON object: every key absent <<>> or present <<v>>.
JsonObject(rt, fp, ln, desc, conf, sev, sugg) ==
    [kind |-> "json",
     data |-> [risk_type |-> rt, file_path |-> fp, line_number |-> ln,
               description |-> desc, confidence |-> conf, severity |-> sev,
               suggestion |-> sugg]]

\* A variant whose fallback keeps the confidence of the task.
fallback_json_keeping_confidence(ctx) ==
    JsonObject(<<ctx.risk_type>>, <<ctx.file_path>>,
               <<<<ctx.line_number[1], ctx.line_number[2]>>>>,
               <<ctx.description>>, <<ctx.confidence>>, <<Info>>, <<None>>)

\* fallback_json of both breakers, as json.dumps writes and json.loads reads it.
fallback_json(ctx) ==
    JsonObject(<<ctx.risk_type>>, <<ctx.file_path>>,
               <<<<ctx.line_number[1], ctx.line_number[2]>>>>,
               <<ctx.description>>, <<0>>, <<Info>>, <<None>>)

\* SystemMessage(content=json.dumps(fallback_json)): the zero-confidence
\* verdict, bare JSON without a code block.
FallbackMessage(ctx) ==
    [type |-> "system", content |-> fallback_json(ctx) @@ [fenced |-> FALSE]]

count_of(msgs, type) ==
    Cardinality({i \in 1..Len(msgs) : msgs[i].type = type})

\* current_round = 1 + sum(1 for m in messages if isinstance(m, AIMessage))
current_round(msgs) == 1 + count_of(msgs, "ai")

\* _count_tool_messages
_count_tool_messages(msgs) == count_of(msgs, "tool")

\* A mutant: every tool message counts, however old.
_count_all_no_signal_tools(msgs, window) ==
    Cardinality({i \in 1..Len(msgs) :
                    msgs[i].type = "tool" /\ msgs[i].no_signal})

\* _count_recent_no_signal_tools: no-signal results among the last `window`
\* tool messages (window = max(1, int(window))).
_count_recent_no_signal_tools(msgs, window) ==
    LET tool_idx == {i \in 1..Len(msgs) : msgs[i].type = "tool"}
        recent == {i \in tool_idx :
                      Cardinality({j \in tool_idx : j >= i})
                          <= IF window < 1 THEN 1 ELSE window}
    IN Cardinality({i \in recent : msgs[i].no_signal})

\* max_no_signal = max(1, int(os.environ.get(..., "5")))
max_no_signal == IF environ.EXPERT_MAX_CONSECUTIVE_NO_SIGNAL_TOOLS < 1 THEN 1
                 ELSE environ.EXPERT_MAX_CONSECUTIVE_NO_SIGNAL_TOOLS

\* no_signal_window = max(1, int(os.environ.get(..., "10")))
no_signal_window == IF environ.EXPERT_NO_SIGNAL_WINDOW < 1 THEN 1
                    ELSE environ.EXPERT_NO_SIGNAL_WINDOW

\* A mutant: the breaker trips one round late.
circuit_breaker_one_round_late(msgs, cfg) ==
    current_round(msgs) > cfg.max_expert_rounds + 1

\* handle_circuit_breaker acts unless current_round <= max_rounds.
circuit_breaker_trips(msgs, cfg) ==
    current_round(msgs) > cfg.max_expert_rounds

\* handle_tool_budget acts: one of its three reasons holds.
tool_budget_stops(msgs, cfg) ==
    LET max_tool_calls == IF cfg.max_expert_tool_calls < 0 THEN 0
                          ELSE cfg.max_expert_tool_calls
        tool_calls_used == _count_tool_messages(msgs)
    IN \/ max_tool_calls = 0 /\ tool_calls_used > 0
       \/ max_tool_calls > 0 /\ tool_calls_used >= max_tool_calls
       \/ _count_recent_no_signal_tools(msgs, no_signal_window)
              >= max_no_signal

\* tools_condition: "tools" when the last message requests tool calls.
tools_condition(msgs) ==
    IF msgs = <<>> THEN "END"
    ELSE LET last_message == msgs[Len(msgs)] IN
         IF last_message.type = "ai" /\ last_message.tool_calls > 0
         THEN "tools" ELSE "END"

\* The contents of a message without tool calls, as run_expert_analysis
\* reads them: a JSON object that is the whole content once the code-block
\* marks around it are stripped (kind "json"), or text that json.loads
\* rejects (kind "text") with the JSON object the text holds, if any; and
\* whether that object stands in a ``` code block of the content.
JsonContent(data, fenced) ==
    [kind |-> "json", data |-> data, fenced |-> fenced]
TextContent(embedded, fenced) ==
    [kind |-> "text", embedded |-> embedded, fenced |-> fenced]

\* json.loads(content_clean): the object, when the whole content is one.
whole_object(content) ==
    IF content.kind = "json" THEN <<content.data>> ELSE <<>>

\* re.finditer(json_pattern, content_clean): the object the content holds.
matched_object(content) ==
    IF content.kind = "json" THEN <<content.data>> ELSE content.embedded

\* re.search(code_block_pattern, content) on the content as the model wrote
\* it: the object of its code block.
code_block_object(content) ==
    IF ~content.fenced THEN <<>>
    ELSE IF content.kind = "json" THEN <<content.data>>
    ELSE content.embedded

has_key(obj, key) == obj # <<>> /\ obj[1][key] # <<>>

\* run_expert_analysis after graph.ainvoke: the JSON object read from the
\* content of the last message, <<>> (None) when there is none. Method 1
\* returns the whole content when it is an object with a risk_type, method 2
\* the object matched in the content when it has a risk_type or a file_path,
\* method 3 the object of a code block whatever its keys.
run_expert_analysis(msgs) ==
    IF msgs = <<>> THEN <<>>
    ELSE LET content == msgs[Len(msgs)].content IN
         IF has_key(whole_object(content), "risk_type")
         THEN whole_object(content)
         ELSE IF \/ has_key(matched_object(content), "risk_type")
                 \/ has_key(matched_object(content), "file_path")
         THEN matched_object(content)
         ELSE code_block_object(content)

\* What run_expert_analysis has returned when the graph is at nd.
Returned(msgs, nd) ==
    IF nd = "END" THEN [returned |-> TRUE, value |-> run_expert_analysis(msgs)]
    ELSE [returned |-> FALSE, value |-> <<>>]

\* The contents of a model answer without tool calls: plain text, a JSON
\* object, text around a JSON object, and text with a code block.
ExpertContents ==
    {TextContent(<<>>, FALSE),
     JsonContent(JsonObject(<<"null_safety">>, <<>>, <<>>, <<>>, <<8>>, <<>>,
                            <<>>).data, FALSE),
     JsonContent(JsonObject(<<>>, <<>>, <<>>, <<>>, <<3>>, <<>>, <<>>).data,
                 FALSE),
     JsonContent(JsonObject(<<>>, <<>>, <<>>, <<>>, <<3>>, <<>>, <<>>).data,
                 TRUE),
     TextContent(<<JsonObject(<<"null_safety">>, <<>>, <<>>, <<>>, <<8>>,
                              <<>>, <<>>).data>>, FALSE),
     TextContent(<<JsonObject(<<>>, <<>>, <<>>, <<>>, <<3>>, <<>>, <<>>).data>>,
                 FALSE),
     TextContent(<<JsonObject(<<>>, <<>>, <<>>, <<>>, <<3>>, <<>>, <<>>).data>>,
                 TRUE)}

\* The forced finalize of both breakers: one llm_raw call; its answer with
\* tool_calls cleared, or the fallback verdict when the call raises.
Finalize(llm_ok) ==
    /\ finalize_calls' = finalize_calls + 1
    /\ \E c \in ExpertContents :
          messages' = Append(messages,
                             IF llm_ok THEN FinalAIMessage(c)
                             ELSE FallbackMessage(risk_context))
    /\ node' = tools_condition(messages')
    /\ analysis_result' = Returned(messages', node')
    /\ UNCHANGED <<tool_bound_calls, risk_context, notExpVars>>

\* reasoner, circuit-breaker path.
ReasonerCircuitBreaker ==
    /\ node = "reasoner"
    /\ circuit_breaker_trips(messages, config)
    /\ \E llm_ok \in BOOLEAN : Finalize(llm_ok)

\* reasoner, tool-budget path.
ReasonerToolBudget ==
    /\ node = "reasoner"
    /\ ~circuit_breaker_trips(messages, config)
    /\ tool_budget_stops(messages, config)
    /\ \E llm_ok \in BOOLEAN : Finalize(llm_ok)

\* The most tool calls one assistant message requests.
MaxCallsPerMessage == 2

\* reasoner, main path: one tool-bound call; the model answers with any number
\* of tool calls.
ReasonerToolBound ==
    /\ node = "reasoner"
    /\ ~circuit_breaker_trips(messages, config)
    /\ ~tool_budget_stops(messages, config)
    /\ tool_bound_calls' = tool_bound_calls + 1
    /\ \E n \in 0..MaxCallsPerMessage, c \in ExpertContents :
          \E answer \in {IF n = 0 THEN FinalAIMessage(c) ELSE AIMessage(n)} :
             messages' = IF messages = <<>> THEN <<HumanMessage, answer>>
                         ELSE Append(messages, answer)
    /\ node' = tools_condition(messages')
    /\ analysis_result' = Returned(messages', node')
    /\ UNCHANGED <<finalize_calls, risk_context, notExpVars>>

\* reasoner, main path: the tool-bound call raises and the task is aborted.
ReasonerRaises ==
    /\ node = "reasoner"
    /\ ~circuit_breaker_trips(messages, config)
    /\ ~tool_budget_stops(messages, config)
    /\ tool_bound_calls' = tool_bound_calls + 1
    /\ node' = "aborted"
    /\ analysis_result' = [returned |-> TRUE, value |-> <<>>]
    /\ UNCHANGED <<messages, finalize_calls, risk_context, notExpVars>>

\* ToolNode: every tool call of the last assistant message is executed and
\* answered by one tool message; then the edge back to the reasoner.
ToolsNode ==
    /\ node = "tools"
    /\ LET n == messages[Len(messages)].tool_calls IN
       \E results \in [1..n -> BOOLEAN] :
          messages' = messages \o [i \in 1..n |-> ToolMessage(results[i])]
    /\ node' = "reasoner"
    /\ UNCHANGED <<tool_bound_calls, finalize_calls, risk_context,
                   analysis_result, notExpVars>>

\* The most rounds a graph of build_expert_graph is followed for.
MaxGraphRounds == 3

\* The reasoner node build_expert_graph defines and wires: one tool-bound
\* call in every round, on [system_msg, user_msg] when the history is empty
\* and on the history as it is otherwise; the response alone is added to the
\* history.
reasoner ==
    /\ node = "reasoner"
    /\ tool_bound_calls < MaxGraphRounds
    /\ tool_bound_calls' = tool_bound_calls + 1
    /\ \E n \in 0..MaxCallsPerMessage, c \in ExpertContents :
          messages' = Append(messages,
                             IF n = 0 THEN FinalAIMessage(c) ELSE AIMessage(n))
    /\ node' = tools_condition(messages')
    /\ analysis_result' = Returned(messages', node')
    /\ UNCHANGED <<finalize_calls, risk_context, notExpVars>>

\* The call of that node raises: graph.ainvoke raises and
\* run_expert_analysis returns None from its except clause.
ReasonerAinvokeRaises ==
    /\ node = "reasoner"
    /\ tool_bound_calls < MaxGraphRounds
    /\ tool_bound_calls' = tool_bound_calls + 1
    /\ node' = "aborted"
    /\ analysis_result' = [returned |-> TRUE, value |-> <<>>]
    /\ UNCHANGED <<messages, finalize_calls, risk_context, notExpVars>>

\* The tasks an expert graph is run on.
ExpertItems ==
    {RiskItem("null_safety", <<"x.py">>, <<4, 5>>,
              << <<"null", "check">> >>, 5, Warning, None),
     RiskItem("concurrency", <<"y.py">>, <<7, 7>>,
              << <<"lock", "order">> >>, 9, Error, "add a guard")}

InitExpert ==
    /\ stage = "expert_execution"
    /\ ran = <<>>
    /\ changed_files = <<>>
    /\ metadata = DriverMetadata
    /\ \E r \in {1, 2, 4}, t \in {1, 2, 6} :
          config = [DefaultConfig EXCEPT !.max_expert_rounds = r,
                                         !.max_expert_tool_calls = t]
    /\ changed_lines = <<>>
    /\ file_analyses = <<>>
    /\ lint_errors = <<>>
    /\ work_list = <<>>
    /\ expert_tasks = <<>>
    /\ expert_results = <<>>
    /\ confirmed_issues = <<>>
    /\ final_report = None
    /\ environ = DefaultEnviron
    /\ node = "reasoner"
    /\ messages = <<>>
    /\ tool_bound_calls = 0
    /\ finalize_calls = 0
    /\ risk_context \in ExpertItems
    /\ analysis_result = [returned |-> FALSE, value |-> <<>>]
    /\ ParseIdle
    /\ PoolIdle

NextExpert ==
    \/ ReasonerCircuitBreaker
    \/ ReasonerToolBudget
    \/ ReasonerToolBound
    \/ ReasonerRaises
    \/ ToolsNode

\* ExpertGraphRuntime.reasoner as the reasoner node of the reasoner/tools
\* loop (tools_condition, ToolNode).
SpecExpert == InitExpert /\ [][NextExpert]_vars

\* The graph as build_expert_graph compiles it, with its own reasoner node.
NextExpertGraph == reasoner \/ ReasonerAinvokeRaises \/ ToolsNode

SpecExpertGraph == InitExpert /\ [][NextExpertGraph]_vars

\* The graph runs a scheduled node to its end: no node waits forever.
SpecExpertFair == SpecExpert /\ WF_vars(NextExpert)

\* C3: an expert task makes at most max_expert_rounds tool-bound Gateway calls;
\* when the reasoner starts with round counter r > max_expert_rounds it makes
\* exactly one finalize call without tools and the graph ends there, at most
\* one finalize call is ever made, after it no Gateway call and no tool call
\* happens, and the task terminates.
C3_RoundsBoundedAndTerminates ==
    /\ [](tool_bound_calls <= config.max_expert_rounds)
    /\ [](finalize_calls <= 1)
    /\ [](finalize_calls = 1 => node = "END")
    /\ [][(node = "reasoner" /\ circuit_breaker_trips(messages, config)) =>
             /\ finalize_calls' = finalize_calls + 1
             /\ tool_bound_calls' = tool_bound_calls
             /\ node' = "END"]_vars
    /\ [][finalize_calls = 1 => UNCHANGED vars]_vars
    /\ <>(node \in {"END", "aborted"})

\* The breaker has acted: a task that asked for tools in every round was
\* finalized after max_expert_rounds tool-bound calls.
C3_Witness ==
    /\ node = "END"
    /\ finalize_calls = 1
    /\ tool_bound_calls = config.max_expert_rounds
    /\ config.max_expert_rounds >= 2
    /\ _count_tool_messages(messages) >= config.max_expert_rounds
    /\ ~tool_budget_stops(SubSeq(messages, 1, Len(messages) - 1), config)

\* C4: the tool messages of a task's history never exceed
\* max_expert_tool_calls, whatever the model answers.
C4_ToolCallsWithinBudget ==
    _count_tool_messages(messages) <= config.max_expert_tool_calls

\* An expert task run with tool calls disabled in the configuration.
InitNoTools ==
    /\ stage = "expert_execution"
    /\ ran = <<>>
    /\ changed_files = <<>>
    /\ metadata = DriverMetadata
    /\ \E r \in {1, 2, 4} :
          config = [DefaultConfig EXCEPT !.max_expert_rounds = r,
                                         !.max_expert_tool_calls = 0]
    /\ changed_lines = <<>>
    /\ file_analyses = <<>>
    /\ lint_errors = <<>>
    /\ work_list = <<>>
    /\ expert_tasks = <<>>
    /\ expert_results = <<>>
    /\ confirmed_issues = <<>>
    /\ final_report = None
    /\ environ = DefaultEnviron
    /\ node = "reasoner"
    /\ messages = <<>>
    /\ tool_bound_calls = 0
    /\ finalize_calls = 0
    /\ risk_context \in ExpertItems
    /\ analysis_result = [returned |-> FALSE, value |-> <<>>]
    /\ ParseIdle
    /\ PoolIdle

SpecNoTools == InitNoTools /\ [][NextExpert]_vars

\* C20: with max_expert_tool_calls = 0 no tool call is executed in an expert
\* task, whatever the model returns: the history never holds a tool message,
\* so each verdict is produced from the initial context only.
C20_NoToolCallWhenDisabled ==
    config.max_expert_tool_calls = 0 => _count_tool_messages(messages) = 0

\* An expert task run with the no-signal settings taken from the environment.
InitNoSignal ==
    /\ stage = "expert_execution"
    /\ ran = <<>>
    /\ changed_files = <<>>
    /\ metadata = DriverMetadata
    /\ \E r \in {3, 6} :
          config = [DefaultConfig EXCEPT !.max_expert_rounds = r,
                                         !.max_expert_tool_calls = 8]
    /\ changed_lines = <<>>
    /\ file_analyses = <<>>
    /\ lint_errors = <<>>
    /\ work_list = <<>>
    /\ expert_tasks = <<>>
    /\ expert_results = <<>>
    /\ confirmed_issues = <<>>
    /\ final_report = None
    /\ environ \in {DefaultEnviron,
                    [DefaultEnviron EXCEPT
                        !.EXPERT_MAX_CONSECUTIVE_NO_SIGNAL_TOOLS = 2,
                        !.EXPERT_NO_SIGNAL_WINDOW = 3]}
    /\ node = "reasoner"
    /\ messages = <<>>
    /\ tool_bound_calls = 0
    /\ finalize_calls = 0
    /\ risk_context \in ExpertItems
    /\ analysis_result = [returned |-> FALSE, value |-> <<>>]
    /\ ParseIdle
    /\ PoolIdle

SpecNoSignal == InitNoSignal /\ [][NextExpert]_vars

\* The tool results in the history, oldest first, and the no-signal ones
\* among its last w.
tool_results == SelectSeq(messages, LAMBDA m : m.type = "tool")

no_signal_among_last(w) ==
    Cardinality({i \in 1..Len(tool_results) :
                    /\ i > Len(tool_results) - w
                    /\ tool_results[i].no_signal})

\* C21: at the start of a reasoning round, if at least
\* max_consecutive_no_signal_tools of the most recent no_signal_window tool
\* results are no-signal, the round makes one finalize call without tools and
\* no tool-bound call; with fewer no-signal results in the window, and the
\* round and tool-call caps not reached, it makes a tool-bound call.
C21_NoSignalStop ==
    [][node = "reasoner" =>
        LET t_ns == no_signal_among_last(environ.EXPERT_NO_SIGNAL_WINDOW)
            m == environ.EXPERT_MAX_CONSECUTIVE_NO_SIGNAL_TOOLS
        IN /\ t_ns >= m =>
                /\ finalize_calls' = finalize_calls + 1
                /\ tool_bound_calls' = tool_bound_calls
           /\ (/\ t_ns < m
               /\ 1 + count_of(messages, "ai") <= config.max_expert_rounds
               /\ Len(tool_results) < config.max_expert_tool_calls) =>
                /\ tool_bound_calls' = tool_bound_calls + 1
                /\ finalize_calls' = finalize_calls]_vars

\* A task stopped for no-signal results alone, with older no-signal results
\* outside the window: neither cap was reached.
C21_Witness ==
    /\ finalize_calls = 1
    /\ tool_bound_calls < config.max_expert_rounds
    /\ Len(tool_results) < config.max_expert_tool_calls
    /\ Len(tool_results) > environ.EXPERT_NO_SIGNAL_WINDOW
    /\ \E i \in 1..Len(tool_results) :
          /\ i <= Len(tool_results) - environ.EXPERT_NO_SIGNAL_WINDOW
          /\ tool_results[i].no_signal

\* C11: when the finalize call without tools fails, on the circuit-breaker
\* path and on the tool-budget path alike, the task still yields a verdict:
\* its confidence is 0 and its risk_type, file_path, line_number and
\* description are those of the input task.
C11_FinalizeFailureKeepsAnchor ==
    (node = "END" /\ messages[Len(messages)].type = "system") =>
        /\ analysis_result.returned
        /\ analysis_result.value # <<>>
        /\ LET v == analysis_result.value[1] IN
               /\ v.confidence = <<0>>
               /\ v.risk_type = <<risk_context.risk_type>>
               /\ v.file_path = <<risk_context.file_path>>
               /\ v.line_number = <<risk_context.line_number>>
               /\ v.description = <<risk_context.description>>

\* C11 witness: the tool budget stopped a task before the round limit, the
\* finalize call raised and the fallback verdict was returned.
C11_Witness ==
    /\ node = "END"
    /\ finalize_calls = 1
    /\ messages[Len(messages)].type = "system"
    /\ ~circuit_breaker_trips(SubSeq(messages, 1, Len(messages) - 1), config)
    /\ tool_budget_stops(SubSeq(messages, 1, Len(messages) - 1), config)
    /\ risk_context.confidence > 0
    /\ analysis_result.value # <<>>

-----------------------------------------------------------------------------
(* The verdict parser (agents/nodes/expert_execution.py)                   *)
(*                                                                         *)
(* A response is what json.loads makes of the cleaned text: a JSON object  *)
(* (kind "json", every key absent <<>> or present <<v>>), a JSON value     *)
(* that is not an object (kind "json_other"), or text that is not JSON     *)
(* (kind "text", with whether it contains "confirmed" or "valid").         *)

\* data.get(key, default)
Get(data, key, default) == IF data[key] = <<>> THEN default ELSE data[key][1]

\* validated_item = RiskItem(risk_type=RiskType(data.get(...)), ...): the
\* keyword arguments; a confidence the response does not give is the task's.
validated_item(data, item) ==
    [RiskItem(Get(data, "risk_type", item.risk_type),
              Get(data, "file_path", item.file_path),
              Get(data, "line_number", JsonList(item.line_number)),
              Get(data, "description", item.description),
              Get(data, "confidence", item.confidence),
              Get(data, "severity", item.severity),
              Get(data, "suggestion", item.suggestion))
        EXCEPT !.confidence_ulps = IF data.confidence = <<>>
                                   THEN item.confidence_ulps ELSE 0]

\* c / 10 + 0.2 and c / 10 - 0.2 as IEEE 754 doubles, for a confidence of c
\* tenths (0..10): the number of doubles the sum lies above the double
\* nearest (c + 2) / 10, and the difference above the double nearest
\* (c - 2) / 10 (0.7 + 0.2 is 0.8999999999999999, 0.7 - 0.2 is
\* 0.49999999999999994); sums above 1.0 and differences below 0.0 are
\* clipped to 1.0 and 0.0.
PlusTwoTenthsUlps == <<0, 1, 0, 0, 1, 0, 0, -1, 0, 0, 0>>
MinusTwoTenthsUlps == <<0, 0, 0, -2, 0, 0, -1, -1, 1, 0, 0>>

\* _parse_expert_response
_parse_expert_response(resp, item) ==
    CASE resp.kind = "json" ->
            IF construction_raises(validated_item(resp.data, item)) THEN item
            ELSE constructed(validated_item(resp.data, item))
      [] resp.kind = "json_other" -> item
      [] OTHER ->
            IF resp.confirms
            THEN [item EXCEPT
                     !.confidence = Min({ConfOne, item.confidence + 2}),
                     !.confidence_ulps = PlusTwoTenthsUlps[item.confidence + 1],
                     !.suggestion = IF item.suggestion \in {None, ""}
                                    THEN "response[:200]"
                                    ELSE item.suggestion]
            ELSE [item EXCEPT
                     !.confidence = Max({0, item.confidence - 2}),
                     !.confidence_ulps = MinusTwoTenthsUlps[item.confidence + 1]]

\* The call of _parse_expert_response at the end of an expert task.
ParseExpertResponse ==
    /\ verdict = <<>>
    /\ verdict' = <<_parse_expert_response(response, original_item)>>
    /\ UNCHANGED <<original_item, response, notParseVars>>

ParseItems ==
    {RiskItem(rt, <<"x.py">>, <<4, 5>>, << <<"null", "check">> >>, c,
              Warning, sg) :
        rt \in {"null_safety",
                "concurrency"},
        c \in {0, 1, 5, 7, 9, ConfOne}, sg \in {None, "", "add a guard"}}

ParseData ==
    [risk_type : {<<>>, <<"concurrency">>, <<"style">>},
     file_path : {<<>>, << <<"y.py">> >>},
     line_number : {<<>>, <<JsonList(<<4, 4>>)>>, <<JsonList(<<0, 0>>)>>,
                    <<JsonInt(4)>>},
     description : {<<>>, << << <<"confirmed", "null", "check">> >> >>},
     confidence : {<<>>, <<0>>, <<8>>, <<15>>},
     severity : {<<>>},
     suggestion : {<<>>}]

ParseResponses ==
    {[kind |-> "json", data |-> d] : d \in ParseData}
        \cup {[kind |-> "json_other"]}
        \cup {[kind |-> "text", confirms |-> b] : b \in BOOLEAN}

InitParse ==
    /\ stage = "expert_execution"
    /\ ran = <<>>
    /\ changed_files = <<>>
    /\ metadata = DriverMetadata
    /\ config = DefaultConfig
    /\ changed_lines = <<>>
    /\ file_analyses = <<>>
    /\ lint_errors = <<>>
    /\ work_list = <<>>
    /\ expert_tasks = <<>>
    /\ expert_results = <<>>
    /\ confirmed_issues = <<>>
    /\ final_report = None
    /\ ExpertIdle
    /\ PoolIdle
    /\ original_item \in ParseItems
    /\ response \in ParseResponses
    /\ verdict = <<>>

NextParse == ParseExpertResponse

SpecParse == InitParse /\ [][NextParse]_vars

\* C9: every expert verdict has the file_path of its input task, and the
\* risk_type of its input task unless the model's output names a different
\* known risk type (which the verdict then carries).
C9_VerdictKeepsIdentity ==
    verdict # <<>> =>
        /\ verdict[1].file_path = original_item.file_path
        /\ \/ verdict[1].risk_type = original_item.risk_type
           \/ /\ response.kind = "json"
              /\ response.data.risk_type # <<>>
              /\ response.data.risk_type[1] \in RiskTypes
              /\ verdict[1].risk_type = response.data.risk_type[1]

\* The final response cannot be parsed as a verdict: it is not a JSON object,
\* or the item built from it is rejected.
unparseable(resp, item) ==
    \/ resp.kind # "json"
    \/ construction_raises(validated_item(resp.data, item))

\* C10: a final response that cannot be parsed as a verdict yields a verdict
\* with confidence 0 and the risk_type, file_path and line_number of the
\* input task.
C10_UnparseableGivesZeroConfidence ==
    (verdict # <<>> /\ unparseable(response, original_item)) =>
        /\ verdict[1].confidence = 0
        /\ verdict[1].risk_type = original_item.risk_type
        /\ verdict[1].file_path = original_item.file_path
        /\ verdict[1].line_number = original_item.line_number

-----------------------------------------------------------------------------
(* Intent analysis (agents/nodes/intent_analysis.py)                       *)
(*                                                                         *)
(* The outcome of one file's Gateway call: it raises ("gateway_error"),    *)
(* its text is not JSON ("malformed"), is JSON but not an object           *)
(* ("not_an_object"), or is a JSON object ("parsed") with its keys         *)
(* file_path and intent_summary (absent <<>> or present <<v>>) and the     *)
(* list under potential_risks.                                             *)

FileAnalysis(fp, summary, risks) ==
    [file_path |-> fp, intent_summary |-> summary, potential_risks |-> risks]

RECURSIVE potential_risks(_)
\* The risk loop of _parse_intent_analysis_response: a risk without
\* line_number or whose RiskItem cannot be built is skipped.
potential_risks(risks_data) ==
    IF risks_data = <<>> THEN <<>>
    ELSE (IF \/ Head(risks_data).line_number.kind = "null"
             \/ construction_raises(Head(risks_data))
          THEN <<>>
          ELSE <<constructed(Head(risks_data))>>)
             \o potential_risks(Tail(risks_data))

\* parser.parse (PydanticOutputParser of FileAnalysis) accepts a JSON object
\* that has a file_path and an intent_summary (strings, when present) and
\* whose risks are all valid RiskItems.
parser_accepts(data) ==
    /\ data.file_path # <<>>
    /\ data.intent_summary # <<>>
    /\ \A i \in 1..Len(data.risks) :
          /\ data.risks[i].line_number.kind # "null"
          /\ ~construction_raises(data.risks[i])

\* _parse_intent_analysis_response(response, file_path): text that is not
\* JSON gives its first 500 characters as summary; a JSON object gives its
\* intent_summary (the text again when it has none) and the risks that can
\* be built; a JSON value that is not an object has no .get and ends in the
\* outer except.
_parse_intent_analysis_response(resp, fp) ==
    CASE resp.kind = "malformed" -> FileAnalysis(fp, "response[:500]", <<>>)
      [] resp.kind = "not_an_object" ->
            FileAnalysis(fp, "Error parsing response", <<>>)
      [] OTHER ->
            FileAnalysis(fp,
                IF resp.intent_summary = <<>> THEN "response[:500]"
                ELSE resp.intent_summary[1],
                potential_risks(resp.risks))

\* analyze_file: a Gateway call that raises leaves `response` unbound, so
\* the fallback's first line raises too and the outer except answers with
\* the error analysis; a response parser.parse accepts is returned as the
\* response's own object, file_path included; one it rejects goes through
\* _parse_intent_analysis_response.
analyze_file(fp, outcome) ==
    CASE outcome.kind = "gateway_error" ->
            Ok([analysis |-> FileAnalysis(fp, "Error analyzing file", <<>>)])
      [] outcome.kind = "parsed" /\ parser_accepts(outcome) ->
            Ok([analysis |-> FileAnalysis(outcome.file_path[1],
                                          outcome.intent_summary[1],
                                          potential_risks(outcome.risks))])
      [] OTHER ->
            Ok([analysis |-> _parse_intent_analysis_response(outcome, fp)])

\* intent_analysis_node: asyncio.gather over the changed files.
intent_analysis_node(meta, files, outcomes) ==
    IF ~meta.llm_provider \/ files = <<>>
    THEN Ok([file_analyses |-> <<>>])
    ELSE IF \E i \in 1..Len(files) : analyze_file(files[i], outcomes[i]).raised
    THEN [raised |-> TRUE]
    ELSE Ok([file_analyses |->
                [i \in 1..Len(files) |->
                    analyze_file(files[i], outcomes[i]).analysis]])

\* A risk as the model writes it, line_number a JSON value.
RiskData(fp, v) ==
    RiskItem("null_safety", fp, v,
             << <<"null", "check">> >>, 5, Warning, None)

\* What the model may find in one file.
IntentRisks(fp) ==
    {<<>>,
     <<RiskData(fp, JsonList(<<1, 1>>))>>,
     <<RiskItem("concurrency", fp, JsonList(<<2, 3>>),
                << <<"lock", "order">> >>, 5, Error, None),
       RiskData(fp, JsonList(<<40, 40>>))>>,
     <<RiskData(fp, JsonInt(7)), RiskData(fp, JsonList(<<3, 2>>)),
       RiskData(fp, JsonList(<<0, 1>>)), RiskData(fp, JsonList(<<1, 2, 3>>)),
       RiskData(fp, JsonNull), RiskData(fp, JsonList(<<1, 1>>)),
       RiskData(fp, JsonList(<<5>>))>>}

\* A JSON object with the given keys.
IntentObject(fp, summary, risks) ==
    [kind |-> "parsed", file_path |-> fp, intent_summary |-> summary,
     risks |-> risks]

IntentOutcomes(fp) ==
    {[kind |-> "gateway_error"], [kind |-> "malformed"],
     [kind |-> "not_an_object"]}
        \cup {IntentObject(<<fp>>, <<"summary">>, r) : r \in IntentRisks(fp)}
        \cup {IntentObject(<<>>, sm, r) :
                 sm \in {<<>>, <<"summary">>},
                 r \in {<<>>, <<RiskData(fp, JsonList(<<1, 1>>))>>}}
        \cup {IntentObject(<<fp>>, <<>>, <<RiskData(fp, JsonList(<<1, 1>>))>>)}
        \cup {IntentObject(<< <<"z.py">> >>, <<"summary">>, <<>>)}

\* The intent node as a graph step.
IntentNode ==
    /\ stage = "intent_analysis"
    /\ \E outcomes \in [1..Len(changed_files) ->
                           UNION {IntentOutcomes(changed_files[i]) :
                                     i \in 1..Len(changed_files)}] :
          /\ \A i \in 1..Len(changed_files) :
                outcomes[i] \in IntentOutcomes(changed_files[i])
          /\ \E out \in {intent_analysis_node(metadata, changed_files,
                                                outcomes)} :
             IF out.raised THEN DriverExcept
             ELSE /\ file_analyses' = out.file_analyses
                  /\ stage' = "manager"
                  /\ ran' = Append(ran, "intent_analysis")
                  /\ UNCHANGED <<metadata, config, changed_files, changed_lines,
                                 lint_errors, work_list, expert_tasks,
                                 expert_results, confirmed_issues, final_report,
                                 notRunVars>>

-----------------------------------------------------------------------------
(* The expert stage as one graph step (expert_execution_node)              *)

\* The log entry of one task (expert_analysis), by what identifies it.
expert_analysis(risk_item) ==
    [risk_type |-> risk_item.risk_type, file_path |-> risk_item.file_path,
     line_number |-> risk_item.line_number]

\* global_state["metadata"]["expert_analyses"].append(expert_analysis), on
\* the way out with a verdict and in _process_risk_item's except clause; an
\* exception that reaches process_task has appended nothing.
log_expert_analysis(meta, risk_item, exit_path) ==
    IF exit_path = "exception" THEN meta
    ELSE [meta EXCEPT !.expert_analyses =
                          Append(@, expert_analysis(risk_item))]

\* The orders n tasks may end in that entered a semaphore of c permits in
\* task order: the j-th to end is one of the first c + j - 1 to enter.
completion_orders(n, c) ==
    {o \in [1..n -> 1..n] :
        /\ \A j, k \in 1..n : j # k => o[j] # o[k]
        /\ \A j \in 1..n : o[j] <= c + j - 1}

RECURSIVE log_expert_analyses(_, _, _, _)
\* The log after the tasks that ran: each leaves its entry when it ends, with
\* its verdict or from _process_risk_item's except clause.
log_expert_analyses(meta, items, task_outcome, order) ==
    IF order = <<>> THEN meta
    ELSE LET risk_item == items[Head(order)] IN
         log_expert_analyses(
             log_expert_analysis(meta, risk_item,
                                 task_outcome[risk_item].kind),
             items, task_outcome, Tail(order))

\* The tasks of the groups whose run_expert_group got as far as its gather,
\* in the order they enter the semaphore.
tasks_run(tasks, group_raises) ==
    Flatten([g \in 1..Len(tasks) |->
                [items |-> IF group_raises[g] THEN <<>> ELSE tasks[g].items]])

\* process_task: the verdict of one task, <<>> (None) when _process_risk_item
\* raised or returned None from its except clause.
process_task(item, outcome) ==
    IF outcome.kind \in {"exception", "caught"} THEN <<>>
    ELSE <<_parse_expert_response(outcome, item)>>

RECURSIVE run_expert_group(_, _)
\* run_expert_group: the verdicts of a group's tasks, failures filtered out.
run_expert_group(items, task_outcome) ==
    IF items = <<>> THEN <<>>
    ELSE process_task(Head(items), task_outcome[Head(items)])
             \o run_expert_group(Tail(items), task_outcome)

\* expert_execution_node: gather(..., return_exceptions=True) over the groups;
\* a group that raised contributes an empty list.
expert_execution_node(meta, tasks, task_outcome, group_raises) ==
    IF ~meta.llm_provider \/ ~meta.config \/ tasks = <<>>
    THEN Ok([expert_results |-> <<>>])
    ELSE Ok([expert_results |->
                [g \in 1..Len(tasks) |->
                    [key |-> tasks[g].key,
                     items |-> IF group_raises[g] THEN <<>>
                               ELSE run_expert_group(tasks[g].items,
                                                     task_outcome)]]])

\* A JSON verdict that keeps the identity and sets the confidence.
JsonConfidence(c) ==
    [kind |-> "json",
     data |-> [risk_type |-> <<>>, file_path |-> <<>>, line_number |-> <<>>,
               description |-> <<>>, confidence |-> <<c>>, severity |-> <<>>,
               suggestion |-> <<>>]]

\* A JSON verdict that names another line range.
JsonLineNumber(v) ==
    [JsonConfidence(9) EXCEPT !.data.line_number = <<v>>]

\* The final responses of an expert task.
FinalResponses ==
    {[kind |-> "text", confirms |-> TRUE], JsonConfidence(0)}

\* What one expert task may end with: an exception that reaches process_task,
\* one that _process_risk_item catches, or a final response.
TaskOutcomes ==
    {[kind |-> "exception"], [kind |-> "caught"]} \cup FinalResponses

\* The expert stage as a graph step.
ExpertExecutionNode ==
    /\ stage = "expert_execution"
    /\ \E task_outcome \in [{work_list[i] : i \in 1..Len(work_list)} ->
                               TaskOutcomes
                                   \cup {JsonLineNumber(JsonList(<<0, 3>>))}],
          group_raises \in [1..Len(expert_tasks) -> BOOLEAN] :
          \E out \in {expert_execution_node(metadata, expert_tasks,
                                             task_outcome, group_raises)},
             order \in completion_orders(
                           Len(tasks_run(expert_tasks, group_raises)),
                           config.max_concurrent_llm_requests) :
          IF out.raised THEN DriverExcept
          ELSE /\ expert_results' = out.expert_results
               /\ metadata' =
                      IF ~metadata.llm_provider \/ ~metadata.config
                      THEN metadata
                      ELSE log_expert_analyses(
                               metadata,
                               tasks_run(expert_tasks, group_raises),
                               task_outcome, order)
               /\ stage' = "reporter"
               /\ ran' = Append(ran, "expert_execution")
               /\ UNCHANGED <<config, changed_files, changed_lines,
                              file_analyses, lint_errors, work_list,
                              expert_tasks, confirmed_issues, final_report,
                              notRunVars>>

-----------------------------------------------------------------------------
(* The whole run (agents/workflow.py): the compiled graph from its entry   *)
(* point, for any changed files, lint errors and stage failures.           *)

PipelineLint ==
    {<<>>,
     <<[file |-> <<"x.py">>, line |-> 7,
        description |-> << <<"unused", "import">> >>, severity |-> Error]>>,
     <<[file |-> <<"x.py">>, line |-> -1,
        description |-> << <<"unused", "import">> >>, severity |-> Error],
       [file |-> <<"x.py">>, line |-> 7,
        description |-> << <<"unused", "import">> >>, severity |-> Error]>>}

InitPipeline ==
    /\ stage = "intent_analysis"
    /\ ran = <<>>
    /\ \E l \in BOOLEAN : metadata = [DriverMetadata EXCEPT !.llm = l]
    /\ config = DefaultConfig
    /\ changed_files \in {<<>>, << <<"x.py">> >>, << <<"x.py">>, <<"y.py">> >>}
    /\ changed_lines = [fp \in {<<"x.py">>, <<"y.py">>} |-> {2}]
    /\ file_analyses = <<>>
    /\ lint_errors \in PipelineLint
    /\ work_list = <<>>
    /\ expert_tasks = <<>>
    /\ expert_results = <<>>
    /\ confirmed_issues = <<>>
    /\ final_report = ""
    /\ NotRunIdle

\* The nodes a run from the entry point executes. manager_node returns an
\* empty expert_tasks for every input, so route_to_experts leads to the
\* reporter, and the reporter, given no verdicts, makes no Gateway call.
NextPipeline ==
    \/ IntentNode
    \/ ManagerNode
    \/ ReporterOk

SpecPipeline == InitPipeline /\ [][NextPipeline]_vars

-----------------------------------------------------------------------------
(* The Manager on its own: candidate risks from intent analysis, lint      *)
(* errors, the changed lines of the diff and the anchoring configuration.  *)

MaxItems == 2

AnchorTypes == {RiskType.SYNTAX, RiskType.NULL_SAFETY}
AnchorPaths == {<<"x.py">>, <<"a", "x.py">>}
AnchorRanges == {<<1, 1>>, <<4, 5>>}
AnchorItems ==
    {RiskItem(t, fp, ln, << <<"null", "check">> >>, c, Error, None) :
        t \in AnchorTypes, fp \in AnchorPaths, ln \in AnchorRanges, c \in {3, 9}}
AnchorChanged == {[fp \in {<<"x.py">>} |-> ls] : ls \in {{}, {2}, {6, 9}}}
AnchorLint ==
    {<<>>, <<[file |-> <<"x.py">>, line |-> 0,
              description |-> << <<"unused", "import">> >>,
              severity |-> str("Warning")]>>}

\* Configured type weights: a dict keyed by RiskType values.
ConfiguredTypeWeights ==
    [t \in {"concurrency", "business_intent", "null_safety"} |->
        CASE t = "concurrency" -> 13
          [] t = "business_intent" -> 10
          [] OTHER -> 7]

InitManager ==
    /\ stage = "manager"
    /\ ran = <<>>
    /\ changed_files = <<>>
    /\ \E l \in BOOLEAN : metadata = [DriverMetadata EXCEPT !.llm = l]
    /\ \E w \in {0, 2}, d \in BOOLEAN, tws \in {EmptyMap, ConfiguredTypeWeights} :
          config = [DefaultConfig EXCEPT !.manager_anchor_window = w,
                                         !.manager_drop_unanchored = d,
                                         !.manager_risk_type_weights = tws]
    /\ changed_lines \in AnchorChanged
    /\ \E risks \in SeqUpTo(AnchorItems, MaxItems) :
          file_analyses \in {<<>>, <<[file_path |-> <<"x.py">>,
                                      intent_summary |-> "summary",
                                      potential_risks |-> risks]>>}
    /\ lint_errors \in AnchorLint
    /\ work_list = <<>>
    /\ expert_tasks = <<>>
    /\ expert_results = <<>>
    /\ confirmed_issues = <<>>
    /\ final_report = None
    /\ NotRunIdle

NextManager == ManagerNode

SpecManager == InitManager /\ [][NextManager]_vars

\* What the Manager's node returns on every input: no work. Without
\* metadata["llm"] or file analyses it returns early; otherwise its try body
\* raises (anchor_filter, type_weights) and the except returns empty lists,
\* or the candidate list is empty. The statements about the items of
\* work_list below have no item to speak of in any run of the node.
ManagerReturnsNoWork ==
    (ran # <<>>) => work_list = <<>> /\ expert_tasks = <<>>

\* C2: with manager_drop_unanchored = true, for every configured window W >= 0
\* (W = 0 included), every work_list item whose type is not syntax_static_errors
\* has a changed line L of its file with start - W <= L <= end + W.
C2_AnchoredWithinConfiguredWindow ==
    (ran # <<>> /\ config.manager_drop_unanchored) =>
        \A i \in 1..Len(work_list) :
            work_list[i].risk_type # RiskType.SYNTAX =>
                \E L \in changed_of(changed_lines,
                                    _normalize_path(work_list[i].file_path)) :
                    /\ work_list[i].line_number[1] - config.manager_anchor_window <= L
                    /\ L <= work_list[i].line_number[2] + config.manager_anchor_window

-----------------------------------------------------------------------------
(* The Manager keeping unanchored candidates, for any configured cap.      *)

InitCap ==
    /\ stage = "manager"
    /\ ran = <<>>
    /\ changed_files = <<>>
    /\ metadata = [DriverMetadata EXCEPT !.llm = TRUE]
    /\ \E c \in {0, 2, 5}, tws \in {EmptyMap, ConfiguredTypeWeights} :
          config = [DefaultConfig EXCEPT !.manager_anchor_window = 2,
                                         !.manager_drop_unanchored = FALSE,
                                         !.manager_unanchored_confidence = c,
                                         !.manager_risk_type_weights = tws]
    /\ changed_lines \in AnchorChanged
    /\ \E risks \in SeqUpTo(AnchorItems, MaxItems) :
          file_analyses = <<[file_path |-> <<"x.py">>,
                             intent_summary |-> "summary",
                             potential_risks |-> risks]>>
    /\ lint_errors \in AnchorLint
    /\ work_list = <<>>
    /\ expert_tasks = <<>>
    /\ expert_results = <<>>
    /\ confirmed_issues = <<>>
    /\ final_report = None
    /\ NotRunIdle

SpecCap == InitCap /\ [][NextManager]_vars

\* C17: with manager_drop_unanchored = false, for every configured
\* manager_unanchored_confidence c (c = 0 included), every work_list item that
\* is not syntax_static_errors and has no changed line within the anchor
\* window of its line range has a confidence of at most c.
C17_UnanchoredConfidenceCapped ==
    (ran # <<>> /\ ~config.manager_drop_unanchored) =>
        \A i \in 1..Len(work_list) :
            (/\ work_list[i].risk_type # RiskType.SYNTAX
             /\ ~\E L \in changed_of(changed_lines,
                                     _normalize_path(work_list[i].file_path)) :
                    /\ work_list[i].line_number[1] - config.manager_anchor_window <= L
                    /\ L <= work_list[i].line_number[2] + config.manager_anchor_window)
                => work_list[i].confidence <= config.manager_unanchored_confidence

-----------------------------------------------------------------------------
(* The Manager with lint errors far from the changed lines, with and       *)
(* without file analyses; the Gateway is available.                        *)

LintErrors ==
    {[file |-> fp, line |-> n, description |-> << <<"unused", "import">> >>,
      severity |-> IF n = 1 THEN Error ELSE Warning] :
        fp \in {<<"x.py">>, <<"y.py">>}, n \in {1, 40}}

LintAnalyses ==
    {<<>>,
     <<[file_path |-> <<"x.py">>, intent_summary |-> "summary",
        potential_risks |-> <<>>]>>,
     <<[file_path |-> <<"x.py">>, intent_summary |-> "summary",
        potential_risks |->
            <<RiskItem("null_safety", <<"x.py">>, <<4, 5>>,
                       << <<"null", "check">> >>, 9, Warning, None)>>]>>}

InitLint ==
    /\ stage = "manager"
    /\ ran = <<>>
    /\ changed_files = <<>>
    /\ metadata = [DriverMetadata EXCEPT !.llm = TRUE]
    /\ \E tws \in {EmptyMap, ConfiguredTypeWeights} :
          config = [DefaultConfig EXCEPT !.manager_risk_type_weights = tws]
    /\ changed_lines = [fp \in {<<"x.py">>} |-> {2}]
    /\ file_analyses \in LintAnalyses
    /\ lint_errors \in SeqUpTo(LintErrors, 2) \ {<<>>}
    /\ work_list = <<>>
    /\ expert_tasks = <<>>
    /\ expert_results = <<>>
    /\ confirmed_issues = <<>>
    /\ final_report = None
    /\ NotRunIdle

SpecLint == InitLint /\ [][NextManager]_vars

\* C18: with the Gateway available and lint errors present, for any list of
\* file analyses (the empty one included) every lint error of line n >= 1 is
\* in the work_list as a syntax_static_errors item with line_number [n, n],
\* confidence 0.8, the linter's severity and no suggestion, however far it
\* is from the changed lines (the budget caps are not reached).
C18_LintErrorsReachWorkList ==
    (ran # <<>>) =>
        \A n \in 1..Len(lint_errors) :
            lint_errors[n].line >= 1 =>
                \E i \in 1..Len(work_list) :
                    /\ work_list[i].risk_type = RiskType.SYNTAX
                    /\ work_list[i].file_path = lint_errors[n].file
                    /\ work_list[i].line_number
                           = <<lint_errors[n].line, lint_errors[n].line>>
                    /\ work_list[i].confidence = 8
                    /\ work_list[i].severity = lint_errors[n].severity
                    /\ work_list[i].suggestion = None

-----------------------------------------------------------------------------
(* The Manager's helpers called on their own: _merge_near_duplicates on a  *)
(* list of candidates and _budget_work_items on its result, with the       *)
(* arguments the try body of manager_node hands them.                      *)

\* The keyword arguments of _budget_work_items, the severity weights those
\* of a configuration that names none.
BudgetKwargs(mt, mf, caps, tws) ==
    [max_total |-> mt, max_per_file |-> mf, max_per_type |-> caps,
     type_weights |-> tws, severity_weights |-> default_severity_weights]

\* The run a helper is called in: the Manager's turn, nothing produced yet.
HelperContext ==
    /\ stage = "manager"
    /\ ran = <<>>
    /\ changed_files = <<>>
    /\ metadata = [DriverMetadata EXCEPT !.llm = TRUE]
    /\ config = DefaultConfig
    /\ changed_lines = <<>>
    /\ file_analyses = <<>>
    /\ lint_errors = <<>>
    /\ work_list = <<>>
    /\ expert_tasks = <<>>
    /\ expert_results = <<>>
    /\ confirmed_issues = <<>>
    /\ final_report = None
    /\ ExpertIdle
    /\ ParseIdle
    /\ task_state = <<>>
    /\ permits = 0
    /\ elapsed = 0
    /\ gateway_call_after_timeout = FALSE
    /\ chunks = <<>>
    /\ wait_expired = FALSE
    /\ comment_args = <<>>
    /\ built = <<>>
    /\ new_messages = <<>>

\* merged_items = _merge_near_duplicates(items, line_window=,
\* jaccard_threshold=); the result is what _budget_work_items is called on.
MergeNearDuplicates ==
    /\ call.fn = "_merge_near_duplicates"
    /\ call' = [call EXCEPT
                   !.fn = "_budget_work_items",
                   !.merged = _merge_near_duplicates(call.items,
                                  call.line_window, call.jaccard_threshold)]
    /\ UNCHANGED notCallVars

\* work_list = _budget_work_items(merged_items, max_total=, ...).
BudgetWorkItems ==
    /\ call.fn = "_budget_work_items"
    /\ call' = [call EXCEPT
                   !.fn = "returned",
                   !.result = _budget_work_items(call.merged, call.kwargs)]
    /\ UNCHANGED notCallVars

NextHelpers == MergeNearDuplicates \/ BudgetWorkItems

\* Severities a candidate may carry besides the three the code names: white
\* space of str.strip around capitals ("\x0bERROR\xa0"), a zero-width space,
\* which str.strip leaves ("ERROR\u200b"), and a capital whose lower case is
\* two code points ("\u0130nfo").
VtErrorNbsp == <<11>> \o str("ERROR") \o <<160>>
ErrorZwsp == str("ERROR") \o <<8203>>
DottedInfo == <<304>> \o str("nfo")

\* How a run of the code reads each severity of the candidates: the rank
\* _severity_rank returns, and the weight, in tenths, that sw finds for it in
\* the default severity weights.
SeverityReadings ==
    {[severity |-> Error, rank |-> 3, weight |-> 13],
     [severity |-> Warning, rank |-> 2, weight |-> 10],
     [severity |-> Info, rank |-> 1, weight |-> 7],
     [severity |-> str("Error"), rank |-> 3, weight |-> 13],
     [severity |-> str(" info"), rank |-> 1, weight |-> 10],
     [severity |-> VtErrorNbsp, rank |-> 3, weight |-> 10],
     [severity |-> ErrorZwsp, rank |-> 1, weight |-> 10],
     [severity |-> DottedInfo, rank |-> 1, weight |-> 10]}

reading(sev) == CHOOSE r \in SeverityReadings : r.severity = sev

-----------------------------------------------------------------------------
(* The budget: more candidates than the caps allow.                        *)

MaxBudgetItems == 3

BudgetTypes == {"null_safety", "concurrency"}
BudgetPaths == {<<"x.py">>, <<"y.py">>}
BudgetItems ==
    {RiskItem(t, fp, <<1, 1>>, << <<"null", "check">> >>, 9, Warning, None) :
        t \in BudgetTypes, fp \in BudgetPaths}
      \cup
    {RiskItem(t, fp, <<3, 4>>, << <<"lock", "order">> >>, 3, Error, None) :
        t \in BudgetTypes, fp \in BudgetPaths}
BudgetTypeCaps ==
    {EmptyMap} \cup {[t \in {"null_safety"} |-> v] : v \in {0, 1}}

InitBudget ==
    /\ HelperContext
    /\ \E items \in SeqUpTo(BudgetItems, MaxBudgetItems),
          mt \in {1, 2}, mf \in {1, 2}, caps \in BudgetTypeCaps :
          call = [fn |-> "_merge_near_duplicates", items |-> items,
                  line_window |-> 5, jaccard_threshold |-> 75,
                  kwargs |-> BudgetKwargs(mt, mf, caps, ConfiguredTypeWeights),
                  merged |-> <<>>, result |-> <<>>]

SpecBudget == InitBudget /\ [][NextHelpers]_vars

\* C13: the list _budget_work_items returns for the Manager's work_list has
\* at most max_total items, at most max_per_file items of any one file, and
\* at most the configured cap of items of each risk type that has one.
C13_WorkListWithinCaps ==
    (call.fn = "returned") =>
        /\ Len(call.result) <= call.kwargs.max_total
        /\ \A i \in 1..Len(call.result) :
               Cardinality({j \in 1..Len(call.result) :
                               call.result[j].file_path = call.result[i].file_path})
                   <= call.kwargs.max_per_file
        /\ \A t \in DOMAIN call.kwargs.max_per_type :
               Cardinality({j \in 1..Len(call.result) :
                               call.result[j].risk_type = t})
                   <= call.kwargs.max_per_type[t]

\* C13 witness: three distinct candidates of two files met a per-file cap of
\* one and a total cap of two: one item of each file was kept.
C13_Witness ==
    /\ call.fn = "returned"
    /\ Len(call.merged) = MaxBudgetItems
    /\ call.kwargs.max_per_file = 1
    /\ call.kwargs.max_total = 2
    /\ Len(call.result) = 2
    /\ call.result[1].file_path # call.result[2].file_path

-----------------------------------------------------------------------------
(* The priorities: candidates whose scores tie, told apart by severity,    *)
(* by file and by line.                                                    *)

MaxPriorityItems == 3

PriorityItems ==
    {RiskItem("concurrency", <<"x.py">>, <<1, 1>>,
              << <<"null", "check">> >>, 9, Warning, None),
     RiskItem("business_intent", <<"x.py">>, <<1, 1>>,
              << <<"null", "check">> >>, 9, Error, None),
     RiskItem("concurrency", <<"y.py">>, <<1, 1>>,
              << <<"null", "check">> >>, 9, Warning, None),
     RiskItem("concurrency", <<"x.py">>, <<3, 4>>,
              << <<"lock", "order">> >>, 9, Warning, None),
     RiskItem("null_safety", <<"x.py">>, <<1, 1>>,
              << <<"null", "check">> >>, 9, Warning, None),
     RiskItem("business_intent", <<"x.py">>, <<3, 4>>,
              << <<"lock", "order">> >>, 9, str("Error"), None),
     RiskItem("business_intent", <<"a", "x.py">>, <<1, 1>>,
              << <<"null", "check">> >>, 3, Warning, None),
     RiskItem("concurrency", <<"y.py">>, <<1, 1>>,
              << <<"null", "check">> >>, 2, Warning, None),
     RiskItem("business_intent", <<"y.py">>, <<1, 1>>,
              << <<"null", "check">> >>, 9, ErrorZwsp, None),
     RiskItem("business_intent", <<"y.py">>, <<3, 4>>,
              << <<"lock", "order">> >>, 9, VtErrorNbsp, None)}

\* Type weights under which 0.3 * 1.0 and 0.2 * 1.5 are equal as reals and
\* differ as doubles (0.3 and 0.30000000000000004).
RoundingTypeWeights ==
    [t \in {"concurrency", "business_intent"} |->
        IF t = "concurrency" THEN 15 ELSE 10]

InitPriority ==
    /\ HelperContext
    /\ \E items \in SeqUpTo(PriorityItems, MaxPriorityItems),
          mt \in {1, 2, 3}, mf \in {1, 2},
          caps \in {EmptyMap, [t \in {"concurrency"} |-> 1]},
          tws \in {ConfiguredTypeWeights, RoundingTypeWeights} :
          call = [fn |-> "_merge_near_duplicates", items |-> items,
                  line_window |-> 5, jaccard_threshold |-> 75,
                  kwargs |-> BudgetKwargs(mt, mf, caps, tws),
                  merged |-> <<>>, result |-> <<>>]

SpecPriority == InitPriority /\ [][NextHelpers]_vars

\* The score of the claim, confidence * type weight * severity weight, as the
\* double the three factors multiply to, with the severity weight of the
\* reading above.
claimed_score(x) ==
    LET c == x.confidence
        t == IF x.risk_type \in DOMAIN call.kwargs.type_weights
             THEN call.kwargs.type_weights[x.risk_type] ELSE 10
        w == reading(x.severity).weight
    IN [exact |-> c * t * w, ulps |-> ProductUlps[c + 1][t + 1][w + 1]]

\* The priority order as specified: higher score first, then higher severity
\* rank, then file_path ascending, then line_start ascending.
higher_priority(x, y) ==
    LET sx == claimed_score(x)
        sy == claimed_score(y)
        rx == reading(x.severity).rank
        ry == reading(y.severity).rank
    IN \/ sx.exact > sy.exact
       \/ sx.exact = sy.exact /\ sx.ulps > sy.ulps
       \/ /\ sx = sy
          /\ \/ rx > ry
             \/ /\ rx = ry
                /\ \/ path_rank(x.file_path) < path_rank(y.file_path)
                   \/ /\ x.file_path = y.file_path
                      /\ x.line_number[1] < y.line_number[1]

\* C31: the budgeted list is in descending order of score = confidence *
\* type weight * severity weight, ties broken by higher severity rank, then
\* file_path, then line_start; and a merged item that is left out while an
\* item of lower priority is selected had its per-file cap or its per-type
\* cap already filled by selected items that are not of lower priority than
\* itself.
C31_BudgetByPriority ==
    (call.fn = "returned") =>
        /\ \A i, j \in 1..Len(call.result) :
              i < j => ~higher_priority(call.result[j], call.result[i])
        /\ \A n \in 1..Len(call.merged) :
              LET m == call.merged[n]
                  ahead == SelectSeqBy(call.result,
                               {i \in 1..Len(call.result) :
                                   ~higher_priority(m, call.result[i])})
                  caps == call.kwargs.max_per_type
              IN (/\ \A i \in 1..Len(call.result) : call.result[i] # m
                  /\ \E i \in 1..Len(call.result) :
                        higher_priority(m, call.result[i]))
                 => \/ count_file(ahead, m.file_path)
                          >= call.kwargs.max_per_file
                    \/ /\ m.risk_type \in DOMAIN caps
                       /\ count_type(ahead, m.risk_type) >= caps[m.risk_type]

\* Three candidates of equal score were budgeted: the one of severity "error"
\* is first, the second of its file was left out at a per-file cap of one,
\* and the candidate of the other file, of lower priority, was selected.
C31_Witness ==
    /\ call.fn = "returned"
    /\ call.kwargs.max_per_file = 1
    /\ Len(call.merged) = 3
    /\ Len(call.result) = 2
    /\ call.result[1].severity = Error
    /\ call.result[2].file_path = <<"y.py">>
    /\ \E n \in 1..3 :
          /\ call.merged[n].file_path = <<"x.py">>
          /\ call.merged[n].severity = Warning
          /\ higher_priority(call.merged[n], call.result[2])

-----------------------------------------------------------------------------
(* The merge: candidates of one file, close to each other, with equal or   *)
(* unrelated descriptions.                                                 *)

MaxMergeItems == 3

MergeRanges == {<<10, 10>>, <<12, 12>>, <<14, 14>>}
MergeDescriptions == {<< <<"null", "check">> >>, << <<"lock", "order">> >>}
MergeItems ==
    {RiskItem("null_safety", <<"x.py">>, ln, d, c, sev,
              "add a guard") :
        ln \in MergeRanges, d \in MergeDescriptions, c \in {3, 9},
        sev \in {Warning, Error}}
      \cup
    {RiskItem("concurrency", <<"x.py">>, <<10, 10>>,
              << <<"null", "check">> >>, 9, Warning, "add a guard"),
     RiskItem("null_safety", <<"y.py">>, <<14, 14>>,
              << <<"null", "check">> >>, 3, Error, "add a guard"),
     RiskItem("null_safety", <<"x.py">>, <<12, 12>>,
              << <<"null", "check">> >>, 3, str("Error"), "add a guard"),
     RiskItem("null_safety", <<"x.py">>, <<10, 10>>,
              << <<"null", "check">> >>, 9, str(" info"), "add a guard"),
     RiskItem("null_safety", <<"x.py">>, <<14, 14>>,
              << <<"null", "check">> >>, 3, VtErrorNbsp, "add a guard"),
     RiskItem("null_safety", <<"x.py">>, <<12, 12>>,
              << <<"null", "check">> >>, 9, ErrorZwsp, "add a guard"),
     RiskItem("null_safety", <<"x.py">>, <<10, 10>>,
              << <<"null", "check">> >>, 3, DottedInfo, "add a guard")}

InitMerge ==
    /\ HelperContext
    /\ \E items \in SeqUpTo(MergeItems, MaxMergeItems), w \in {2, 5} :
          call = [fn |-> "_merge_near_duplicates", items |-> items,
                  line_window |-> w, jaccard_threshold |-> 75,
                  kwargs |-> BudgetKwargs(30, 6, EmptyMap,
                                          ConfiguredTypeWeights),
                  merged |-> <<>>, result |-> <<>>]

SpecMerge == InitMerge /\ [][NextHelpers]_vars

\* The distance between two line ranges (0 when they overlap).
range_gap(a, b) == Max({0, a[1] - b[2], b[1] - a[2]})

\* C14: after the merge step no two distinct items of the same (file_path,
\* risk_type) remain whose line ranges are within the merge line window of
\* each other and whose descriptions' token sets have a Jaccard similarity
\* of at least the merge threshold.
C14_NoNearDuplicatesRemain ==
    (call.fn # "_merge_near_duplicates") =>
        \A i, j \in 1..Len(call.merged) :
            (/\ i < j
             /\ call.merged[i].file_path = call.merged[j].file_path
             /\ call.merged[i].risk_type = call.merged[j].risk_type
             /\ range_gap(call.merged[i].line_number,
                          call.merged[j].line_number) <= call.line_window)
                => ~jaccard_at_least(_tokenize(call.merged[i].description),
                                     _tokenize(call.merged[j].description),
                                     call.jaccard_threshold)

\* The candidates an item of the merged list was merged from: as many as it
\* has paragraphs, one per paragraph.
merged_from(w, raw) ==
    {S \in SUBSET (1..Len(raw)) :
        /\ Cardinality(S) = Len(w.description)
        /\ \A i \in S : /\ raw[i].risk_type = w.risk_type
                        /\ raw[i].file_path = w.file_path
        /\ \E f \in [1..Len(w.description) -> S] :
               /\ \A k, l \in 1..Len(w.description) : k # l => f[k] # f[l]
               /\ \A k \in 1..Len(w.description) :
                      raw[f[k]].description = <<w.description[k]>>}

\* C15: a merged item has the line range [minimum of the starts, maximum of
\* the ends], the maximum of the merged confidences, the strongest severity
\* among them (one of theirs, of the highest rank a run of the code reads
\* them with), a description made of all original descriptions joined by
\* blank lines, no suggestion, and their risk_type and file_path.
C15_MergedItemAttributes ==
    (call.fn # "_merge_near_duplicates") =>
        \A n \in 1..Len(call.merged) :
            Len(call.merged[n].description) > 1 =>
                LET w == call.merged[n]
                    raw == call.items
                IN \E S \in merged_from(w, raw) :
                      /\ w.line_number[1] = Min({raw[i].line_number[1] : i \in S})
                      /\ w.line_number[2] = Max({raw[i].line_number[2] : i \in S})
                      /\ w.confidence = Max({raw[i].confidence : i \in S})
                      /\ \E i \in S : w.severity = raw[i].severity
                      /\ reading(w.severity).rank
                             = Max({reading(raw[i].severity).rank : i \in S})
                      /\ w.suggestion = None

\* C15 witness: a warning of confidence 0.9 at line 10 and an error of
\* confidence 0.3 at line 14 were merged into an error of confidence 0.9
\* with range [10, 14].
C15_Witness ==
    /\ call.fn = "_budget_work_items"
    /\ Len(call.merged) = 1
    /\ Len(call.items) = 2
    /\ call.items[1].severity = Error
    /\ call.items[1].confidence = 3
    /\ call.merged[1].line_number = <<10, 14>>
    /\ call.merged[1].confidence = 9
    /\ call.merged[1].severity = Error
    /\ Len(call.merged[1].description) = 2

\* C16: the Manager is idempotent: its merge and budget steps applied to the
\* work list they returned, with the same arguments, return that work list.
C16_ManagerIdempotent ==
    (call.fn = "returned") =>
        _budget_work_items(
            _merge_near_duplicates(call.result, call.line_window,
                                   call.jaccard_threshold),
            call.kwargs) = call.result

\* The orders a list can be put in.
permutations_of(s) ==
    {[i \in 1..Len(s) |-> s[f[i]]] :
        f \in {g \in [1..Len(s) -> 1..Len(s)] :
                  \A i, j \in 1..Len(s) : i # j => g[i] # g[j]}}

\* C36: the work list built from a list of candidates (its items and their
\* order) is the work list built from the same candidates in any other
\* order.
C36_WorkListIgnoresInputOrder ==
    (call.fn = "returned") =>
        \A p \in permutations_of(call.items) :
            _budget_work_items(
                _merge_near_duplicates(p, call.line_window,
                                       call.jaccard_threshold),
                call.kwargs) = call.result

-----------------------------------------------------------------------------
(* The graph past the Manager (agents/workflow.py).  manager_node returns  *)
(* an empty expert_tasks for every input, so a run from the entry point    *)
(* goes from the Manager to the Reporter.  The expert stage, and the edge  *)
(* from it to the Reporter, run here from the states the graph is in when  *)
(* the Manager's step has returned the work list that its own merge and    *)
(* budget helpers build from the candidates of the intent stage: the graph *)
(* of create_multi_agent_workflow with each node given the input the node  *)
(* before it is written to hand over.                                      *)

\* What the model may find in one file: two null-safety risks near each
\* other and a concurrency risk, or a risk whose range starts at line 0
\* next to a valid one.
GraphRisks(fp) ==
    {<<RiskData(fp, JsonList(<<1, 1>>)), RiskData(fp, JsonList(<<2, 3>>)),
       RiskItem("concurrency", fp, JsonList(<<40, 40>>),
                << <<"lock", "order">> >>, 5, Error, None)>>,
     <<RiskData(fp, JsonList(<<0, 1>>)), RiskData(fp, JsonList(<<4, 4>>))>>}

\* How the intent stage's Gateway call for one file may have ended.
GraphResponses(fp) ==
    {[kind |-> "gateway_error"]}
        \cup {IntentObject(<<fp>>, <<"summary">>, r) :
                 r \in IF fp = <<"x.py">> THEN GraphRisks(fp)
                       ELSE {<<RiskData(fp, JsonList(<<0, 1>>)),
                               RiskData(fp, JsonList(<<4, 4>>))>>}}

\* Configured severity weights: a dict keyed by severities.
ConfiguredSeverityWeights ==
    [v \in {Error, Warning} |-> IF v = Error THEN 5 ELSE 20]

\* merged_items and work_list as the try body of manager_node computes them
\* from raw_items, with type weights configured: the budget is given the
\* configured type and severity weights, the defaults for an empty dict.
helpers_work_list(cfg, raw_items) ==
    _budget_work_items(
        _merge_near_duplicates(raw_items, merge_line_window(cfg),
                               merge_jaccard(cfg)),
        [max_total |-> max_total(cfg), max_per_file |-> max_per_file(cfg),
         max_per_type |-> cfg.manager_max_items_per_risk_type,
         type_weights |-> type_weights(cfg).value,
         severity_weights |-> severity_weights(cfg)])

\* The graph when the Manager's step has returned: its work_list and
\* expert_tasks are in the state and the conditional edge has been taken.
InitAfterManager ==
    /\ ran = <<"intent_analysis", "manager">>
    /\ metadata = [DriverMetadata EXCEPT !.llm = TRUE]
    /\ \E c \in {1, 2}, sws \in {EmptyMap, ConfiguredSeverityWeights} :
          config = [DefaultConfig EXCEPT
                       !.max_concurrent_llm_requests = c,
                       !.manager_risk_type_weights = ConfiguredTypeWeights,
                       !.manager_severity_weights = sws]
    /\ changed_files \in {<< <<"x.py">> >>, << <<"x.py">>, <<"y.py">> >>}
    /\ changed_lines = [fp \in {<<"x.py">>, <<"y.py">>} |-> {2}]
    /\ \E outcomes \in [1..Len(changed_files) ->
                           UNION {GraphResponses(changed_files[i]) :
                                     i \in 1..Len(changed_files)}] :
          /\ \A i \in 1..Len(changed_files) :
                outcomes[i] \in GraphResponses(changed_files[i])
          /\ file_analyses = intent_analysis_node(metadata, changed_files,
                                                  outcomes).file_analyses
    /\ lint_errors = <<>>
    /\ work_list = helpers_work_list(config, collect_risks(file_analyses))
    /\ expert_tasks = _group_tasks_by_risk_type(work_list)
    /\ stage = route_to_experts(work_list, expert_tasks)
    /\ expert_results = <<>>
    /\ confirmed_issues = <<>>
    /\ final_report = ""
    /\ NotRunIdle

InitGraph == InitPipeline \/ InitAfterManager

\* The nodes of the compiled graph.
NextGraph ==
    \/ IntentNode
    \/ ManagerNode
    \/ ExpertExecutionNode
    \/ ReporterOk
    \/ ReporterLlmFails

SpecGraph == InitGraph /\ [][NextGraph]_vars

\* LangGraph runs the node an edge leads to: a started run is driven to END.
SpecGraphFair == SpecGraph /\ WF_vars(NextGraph)

\* The names of the nodes that have run.
stages_run == {ran[i] : i \in 1..Len(ran)}

\* The node the static graph runs after the nodes that have run.
stage_after(nodes_run) ==
    CASE nodes_run = <<>> -> "intent_analysis"
      [] nodes_run = <<"intent_analysis">> -> "manager"
      [] nodes_run = <<"intent_analysis", "manager">> ->
            IF expert_tasks # <<>> THEN "expert_execution" ELSE "reporter"
      [] nodes_run = <<"intent_analysis", "manager", "expert_execution">> ->
            "reporter"
      [] OTHER -> "END"

StageOrders ==
    {<<>>, <<"intent_analysis">>, <<"intent_analysis", "manager">>,
     <<"intent_analysis", "manager", "expert_execution">>,
     <<"intent_analysis", "manager", "reporter">>,
     <<"intent_analysis", "manager", "expert_execution", "reporter">>}

\* C5: the stages run in the order intent, manager, experts, reporter, each at
\* most once; after the Manager the expert stage is the next to run, and
\* then runs, exactly when the Manager produced a non-empty expert_tasks, and
\* the reporter follows it; and after the reporter the run is at its end.
C5_StageOrder ==
    /\ ran \in StageOrders
    /\ stage = stage_after(ran)
    /\ "manager" \in stages_run =>
          (("expert_execution" \in stages_run \/ stage = "expert_execution")
             <=> expert_tasks # <<>>)
    /\ "reporter" \in stages_run =>
          (/\ stage = "END"
           /\ "expert_execution" \in stages_run <=> expert_tasks # <<>>)

\* A run is at its end: the Manager's step left two groups of expert tasks,
\* the expert stage ran them and the reporter ran after it.
C5_Witness ==
    /\ stage = "END"
    /\ ran = <<"intent_analysis", "manager", "expert_execution", "reporter">>
    /\ Len(expert_tasks) = 2
    /\ Len(expert_results) = 2

ReporterReports == {"llm_unavailable", "no_issues", "llm_report", "simple_report"}

\* The run is not in the driver's workflow-error result.
no_workflow_error == stage # "error" /\ final_report # "workflow_error"

\* At the end of a run the reporter ran last and the result is its output.
returns_reporter_output ==
    stage = "END" =>
        /\ ran[Len(ran)] = "reporter"
        /\ final_report \in ReporterReports
        /\ \E out \in {reporter_node(metadata, config, expert_results, b) :
                          b \in BOOLEAN} :
              /\ ~out.raised
              /\ confirmed_issues = out.confirmed_issues
              /\ final_report = out.final_report

\* C6: whatever fails inside the stages (a file's Gateway call, a response that
\* does not parse, the Manager's try body, an expert task, a whole expert
\* group, the Reporter's Gateway call), no stage raises into the driver: the
\* run never ends in the workflow-error result, it reaches its end through the
\* reporter, and what it returns is what the reporter returned.
C6_NoStageRaises ==
    /\ []no_workflow_error
    /\ []returns_reporter_output
    /\ <>(stage = "END")

\* A run ended with the reporter's own simple report: a file's Gateway call
\* had failed in the intent stage, in the expert stage one group gave no
\* verdict (its task failed, or the group raised before its tasks ran) while
\* the other gave one, and the Reporter's Gateway call failed.
C6_Witness ==
    /\ stage = "END"
    /\ "expert_execution" \in stages_run
    /\ final_report = "simple_report"
    /\ confirmed_issues # <<>>
    /\ \E i \in 1..Len(file_analyses) :
          file_analyses[i].intent_summary = "Error analyzing file"
    /\ \E g \in 1..Len(expert_results) :
          /\ expert_tasks[g].items # <<>>
          /\ expert_results[g].items = <<>>
    /\ Len(metadata.expert_analyses) < Len(work_list)

\* The RiskItems of every stage output of the run.
StageItems ==
    UNION {{file_analyses[i].potential_risks[j] :
               j \in 1..Len(file_analyses[i].potential_risks)} :
              i \in 1..Len(file_analyses)}
      \cup {work_list[i] : i \in 1..Len(work_list)}
      \cup UNION {{expert_tasks[g].items[j] :
                      j \in 1..Len(expert_tasks[g].items)} :
                     g \in 1..Len(expert_tasks)}
      \cup UNION {{expert_results[g].items[j] :
                      j \in 1..Len(expert_results[g].items)} :
                     g \in 1..Len(expert_results)}
      \cup {confirmed_issues[i] : i \in 1..Len(confirmed_issues)}

\* JSON values a line_number may be given as.
RawLineNumbers ==
    {JsonNull} \cup {JsonInt(n) : n \in -1..3}
        \cup {JsonList(l) : l \in SeqUpTo(-1..3, 3)}

\* C19: every RiskItem in a stage output (file_analyses, work_list,
\* expert_tasks, expert_results, confirmed_issues) has line_number (s, e)
\* with 1 <= s <= e; and building a RiskItem from a single integer, from a
\* list whose length is not 2, or from a range with s > e or s < 1 is
\* rejected.
C19_LineNumbersAreRanges ==
    /\ \A it \in StageItems :
          /\ Len(it.line_number) = 2
          /\ 1 <= it.line_number[1]
          /\ it.line_number[1] <= it.line_number[2]
    /\ \A v \in RawLineNumbers :
          (\/ v.kind = "int"
           \/ v.kind = "list" /\ Len(v.items) # 2
           \/ v.kind = "list" /\ Len(v.items) = 2 /\ v.items[1] > v.items[2]
           \/ v.kind = "list" /\ Len(v.items) = 2 /\ v.items[1] < 1)
              => construction_raises(RiskData(<<"x.py">>, v))

\* A run is at its end with items in all five outputs: the intent stage kept
\* the valid risk of a response that also named a range from line 0, the
\* Manager's merge made one item of lines 1 to 3 out of two, every expert
\* task left its entry and the Reporter confirmed an issue.
C19_Witness ==
    /\ stage = "END"
    /\ \E i \in 1..Len(file_analyses) :
          /\ Len(file_analyses[i].potential_risks) = 1
          /\ file_analyses[i].potential_risks[1].line_number = <<4, 4>>
    /\ \E i \in 1..Len(work_list) : work_list[i].line_number = <<1, 3>>
    /\ expert_tasks # <<>>
    /\ Flatten(expert_results) # <<>>
    /\ Len(metadata.expert_analyses) = Len(work_list)
    /\ confirmed_issues # <<>>

-----------------------------------------------------------------------------
(* The Reporter on its own: any expert_results, thresholds and metadata    *)

\* Bounds of the Reporter's inputs.
MaxResults == 2

RepConfidences == {0, 4, 5, 6, 7, ConfOne}
RepTypes == {"syntax", "null_safety"}
RepItems ==
    {RiskItem(rt, "a.py", <<1, 1>>, <<"d1">>, c, Warning, None) :
        rt \in RepTypes, c \in RepConfidences}

\* Per-type threshold maps: none, or one for null_safety.
RepThresholdMaps ==
    {EmptyMap} \cup {[t \in {"null_safety"} |-> v] : v \in {0, 7}}

\* A flat list of verdicts as the dict expert_execution_node returns.
AsGroups(items) ==
    IF items = <<>> THEN <<>>
    ELSE <<[key |-> items[1].risk_type, items |-> items]>>

InitReporter ==
    /\ stage = "reporter"
    /\ ran = <<>>
    /\ changed_files = <<>>
    /\ metadata \in {[DriverMetadata EXCEPT !.llm = l, !.confidence_threshold = t] :
                        l \in BOOLEAN, t \in {<<>>, <<5>>, <<6>>}}
    /\ config \in {[DefaultConfig EXCEPT !.confidence_threshold_by_risk_type = m] :
                        m \in RepThresholdMaps}
    /\ changed_lines = <<>>
    /\ file_analyses = <<>>
    /\ lint_errors = <<>>
    /\ work_list = <<>>
    /\ expert_tasks = <<>>
    /\ expert_results \in {AsGroups(s) : s \in SeqUpTo(RepItems, MaxResults)}
    /\ confirmed_issues = <<>>
    /\ final_report = ""
    /\ NotRunIdle

NextReporter == ReporterOk \/ ReporterLlmFails

SpecReporter == InitReporter /\ [][NextReporter]_vars

\* C1: every item the Reporter returns in confirmed_issues has a confidence at
\* least the threshold of its risk type: the entry of
\* confidence_threshold_by_risk_type when there is one, else the default
\* threshold; on the LLM path and on the deterministic-fallback path alike.
C1_ReporterThreshold ==
    (stage = "END") =>
        \A i \in 1..Len(confirmed_issues) :
            LET it == confirmed_issues[i]
                byType == config.confidence_threshold_by_risk_type
            IN IF it.risk_type \in DOMAIN byType
               THEN it.confidence >= byType[it.risk_type]
               ELSE it.confidence >=
                        (IF metadata.confidence_threshold = <<>>
                         THEN DefaultThresholdFallback
                         ELSE metadata.confidence_threshold[1])

\* C1 witness: the LLM call failed, the fallback report was produced, a verdict
\* of a type with its own threshold was kept and another verdict was dropped.
C1_Witness ==
    /\ stage = "END"
    /\ final_report = "simple_report"
    /\ confirmed_issues # <<>>
    /\ Len(confirmed_issues) < Len(Flatten(expert_results))
    /\ \E i \in 1..Len(confirmed_issues) :
           confirmed_issues[i].risk_type
               \in DOMAIN config.confidence_threshold_by_risk_type

-----------------------------------------------------------------------------
(* The deterministic fallback report (_generate_simple_report)             *)

\* _generate_simple_report, by what the report states and lists: the total
\* is len(confirmed_issues); the issues listed are those of the sections
\* "error", "warning" and "info", in that order.
_generate_simple_report(issues) ==
    LET by_severity(sev) == SelectSeq(issues, LAMBDA it : it.severity = sev)
    IN [total |-> Len(issues),
        listed |-> by_severity(Error) \o by_severity(Warning)
                      \o by_severity(Info)]

\* Verdicts above every threshold, with the severity strings an expert's
\* response may carry (RiskItem.severity is a plain str).
FallbackSeverities == {Error, Warning, Info, str("critical"), str("Error")}
FallbackItems ==
    {RiskItem("null_safety", "a.py", <<n, n>>, <<"d1">>,
              7, sev, None) : n \in {1, 2}, sev \in FallbackSeverities}

InitFallbackReport ==
    /\ stage = "reporter"
    /\ ran = <<>>
    /\ changed_files = <<>>
    /\ metadata = [DriverMetadata EXCEPT !.llm = TRUE]
    /\ config = DefaultConfig
    /\ changed_lines = <<>>
    /\ file_analyses = <<>>
    /\ lint_errors = <<>>
    /\ work_list = <<>>
    /\ expert_tasks = <<>>
    /\ expert_results \in {AsGroups(s) : s \in SeqUpTo(FallbackItems, MaxResults)}
    /\ confirmed_issues = <<>>
    /\ final_report = ""
    /\ NotRunIdle

SpecFallbackReport == InitFallbackReport /\ [][NextReporter]_vars

\* C39: when the report LLM call failed, the fallback report lists every
\* confirmed issue, whatever its severity string: the number of issues
\* listed is the total the report states.
C39_FallbackListsEveryIssue ==
    (stage = "END" /\ final_report = "simple_report") =>
        LET report == _generate_simple_report(confirmed_issues)
        IN /\ Len(report.listed) = report.total
           /\ \A i \in 1..Len(confirmed_issues) :
                 \E k \in 1..Len(report.listed) :
                    report.listed[k] = confirmed_issues[i]

-----------------------------------------------------------------------------
(* The expert stage's task pool (agents/nodes/expert_execution.py):        *)
(* expert_execution_node from its gather to its return, one step per       *)
(* suspension point of a task.                                             *)

\* max_iterations of _process_risk_item.
max_iterations == 10

MaxTasks == 3

MaxElapsed == 2

TaskIds == 1..MaxTasks

\* A task whose process_task has not entered the semaphore yet.  A task is
\* queued, calling (suspended in llm_provider.generate), in tools (suspended
\* in a tool's run) or done.
QueuedTask(item) ==
    [item |-> item, phase |-> "queued", iteration |-> 0, response |-> <<>>,
     result |-> <<>>, raised |-> FALSE]

\* The tasks inside `async with semaphore`.
running_tasks ==
    {i \in DOMAIN task_state : task_state[i].phase \in {"calling", "tools"}}

\* A variant that keeps the permit of a task that raised.
release_unless_exception(p, exit_path) ==
    IF exit_path = "verdict" THEN p + 1 ELSE p

\* Semaphore.release, which `async with` runs on every exit path.
release(p, exit_path) == p + 1

\* `iteration += 1` and `await llm_provider.generate(...)`: the task's next
\* Gateway call begins, whatever the clock reads.
StartCall(i) ==
    /\ task_state' = [task_state EXCEPT ![i].phase = "calling",
                                        ![i].iteration = @ + 1,
                                        ![i].response = <<>>]
    /\ gateway_call_after_timeout' =
           (gateway_call_after_timeout \/ elapsed >= config.timeout_seconds)
    /\ UNCHANGED metadata

\* Semaphore.acquire when a permit is free: process_task enters the block,
\* the tasks in the order the gathers started them, and _process_risk_item
\* runs up to its first Gateway call.
Acquire(i) ==
    /\ stage = "expert_execution"
    /\ i \in DOMAIN task_state
    /\ task_state[i].phase = "queued"
    /\ \A j \in 1..(i - 1) : task_state[j].phase # "queued"
    /\ permits > 0
    /\ permits' = permits - 1
    /\ StartCall(i)
    /\ UNCHANGED <<elapsed, runVarsButMetadata, expVars, parseVars,
                   chunkVars, commentVars, shrinkVars, callVars, environ>>

\* tool_dict: the names of the tools of metadata["tools"], or of the two
\* tools expert_execution_node makes when that list is missing or empty.
tool_dict(meta) ==
    LET tools == IF "tools" \in DOMAIN meta THEN meta.tools ELSE <<>>
    IN IF tools = <<>> THEN {"fetch_repo_map", "read_file"}
       ELSE {tools[n] : n \in 1..Len(tools)}

\* What a Gateway call of a task may end with: a response, whose tool calls
\* (_extract_tool_calls) are none, one of a tool of tool_dict or one of
\* another name, an exception _process_risk_item catches, an exception that
\* reaches process_task.
TurnOutcomes ==
    {[kind |-> "caught"], [kind |-> "exception"]}
        \cup {[kind |-> "response", tool_calls |-> tc, response |-> r] :
                 tc \in {<<>>, <<"read_file">>, <<"fetch_repo_map">>},
                 r \in FinalResponses}

\* A variant whose except clauses hand the input item back as the verdict.
TaskExit_returning_input(i, exit_path, res) ==
    /\ task_state' = [task_state EXCEPT ![i].phase = "done",
                                        ![i].iteration = 0,
                                        ![i].response = <<>>,
                                        ![i].result = <<task_state[i].item>>,
                                        ![i].raised = (exit_path # "verdict")]
    /\ permits' = release(permits, exit_path)
    /\ metadata' = log_expert_analysis(metadata, task_state[i].item, exit_path)
    /\ UNCHANGED gateway_call_after_timeout

\* The task's exit: the semaphore is released, the result recorded (with
\* whether the task ended in an except clause, for the record) and the
\* loop's locals gone with the coroutine's frame.
TaskExit(i, exit_path, res) ==
    /\ task_state' = [task_state EXCEPT ![i].phase = "done",
                                        ![i].iteration = 0,
                                        ![i].response = <<>>,
                                        ![i].result = res,
                                        ![i].raised = (exit_path # "verdict")]
    /\ permits' = release(permits, exit_path)
    /\ metadata' = log_expert_analysis(metadata, task_state[i].item, exit_path)
    /\ UNCHANGED gateway_call_after_timeout

\* A variant whose loop tests `iteration <= max_iterations`.
another_turn_at_max(tool_calls, it) == tool_calls /\ it <= max_iterations

\* The loop goes on after turn `it`: the response held a tool call (without
\* one every branch breaks) and `while iteration < max_iterations` holds.
another_turn(tool_calls, it) == tool_calls /\ it < max_iterations

\* The end of a turn whose response held tool calls, after the last tool
\* returned: the loop's test, and the next Gateway call or the verdict parsed
\* from the last response.
NextTurn(i, final_response) ==
    IF another_turn(TRUE, task_state[i].iteration)
    THEN StartCall(i) /\ UNCHANGED permits
    ELSE \E res \in {process_task(task_state[i].item, final_response)} :
            TaskExit(i, "verdict", res)

\* llm_provider.generate returns or raises.  A response without tool calls
\* is the final response; with a call of a tool of tool_dict the task
\* suspends in the tool's run; a call of an unknown tool is skipped.
Turn(i, outcome) ==
    /\ stage = "expert_execution"
    /\ i \in DOMAIN task_state
    /\ task_state[i].phase = "calling"
    /\ IF outcome.kind = "exception" THEN TaskExit(i, "exception", <<>>)
       ELSE IF outcome.kind = "caught" THEN TaskExit(i, "no_verdict", <<>>)
       ELSE IF outcome.tool_calls = <<>>
       THEN \E res \in {process_task(task_state[i].item, outcome.response)} :
               TaskExit(i, "verdict", res)
       ELSE IF \E n \in 1..Len(outcome.tool_calls) :
                  outcome.tool_calls[n] \in tool_dict(metadata)
       THEN /\ task_state' = [task_state EXCEPT
                                 ![i].phase = "tools",
                                 ![i].response = <<outcome.response>>]
            /\ UNCHANGED <<permits, metadata, gateway_call_after_timeout>>
       ELSE NextTurn(i, outcome.response)
    /\ UNCHANGED <<elapsed, runVarsButMetadata, expVars, parseVars,
                   chunkVars, commentVars, shrinkVars, callVars, environ>>

TaskTurn(i) == \E outcome \in TurnOutcomes : Turn(i, outcome)

\* `await tool_dict[tool_name].run(**tool_input)` returns or raises (the
\* error is the tool's result then), and the turn ends.
ToolReturns(i) ==
    /\ stage = "expert_execution"
    /\ i \in DOMAIN task_state
    /\ task_state[i].phase = "tools"
    /\ NextTurn(i, task_state[i].response[1])
    /\ UNCHANGED <<elapsed, runVarsButMetadata, expVars, parseVars,
                   chunkVars, commentVars, shrinkVars, callVars, environ>>

\* The verdicts of a group, in task order, failures filtered out.
group_results(ts, key) ==
    LET mine == SelectSeqBy(ts, {i \in 1..Len(ts) :
                                    ts[i].item.risk_type = key})
    IN Flatten([n \in 1..Len(mine) |-> [items |-> mine[n].result]])

\* The gathers return: expert_execution_node collects the groups' results.
Gather ==
    /\ stage = "expert_execution"
    /\ \A i \in DOMAIN task_state : task_state[i].phase = "done"
    /\ expert_results' =
           [g \in 1..Len(expert_tasks) |->
               [key |-> expert_tasks[g].key,
                items |-> group_results(task_state, expert_tasks[g].key)]]
    /\ stage' = "reporter"
    /\ ran' = Append(ran, "expert_execution")
    /\ UNCHANGED <<metadata, config, changed_files, changed_lines,
                   file_analyses, lint_errors, work_list, expert_tasks,
                   confirmed_issues, final_report, notRunVars>>

\* A second of the run passes.
Tick ==
    /\ elapsed < MaxElapsed
    /\ elapsed' = elapsed + 1
    /\ UNCHANGED <<task_state, permits, gateway_call_after_timeout,
                   notPoolVars>>

PoolItem(rt, n) ==
    RiskItem(rt, <<"x.py">>, <<n, n>>, << <<"null", "check">> >>, 5,
             Warning, None)

PoolWorkLists ==
    {<<PoolItem("null_safety", 1),
       PoolItem("concurrency", 2)>>,
     <<PoolItem("null_safety", 1),
       PoolItem("concurrency", 2),
       PoolItem("null_safety", 3)>>}

InitPool ==
    /\ stage = "expert_execution"
    /\ ran = <<"intent_analysis", "manager">>
    /\ changed_files = << <<"x.py">> >>
    /\ metadata = DriverMetadata
    /\ \E c \in {1, 2}, t \in {1, 2} :
          config = [DefaultConfig EXCEPT !.max_concurrent_llm_requests = c,
                                         !.timeout_seconds = t]
    /\ changed_lines = <<>>
    /\ file_analyses = <<>>
    /\ lint_errors = <<>>
    /\ work_list \in PoolWorkLists
    /\ expert_tasks = _group_tasks_by_risk_type(work_list)
    /\ expert_results = <<>>
    /\ confirmed_issues = <<>>
    /\ final_report = None
    /\ ExpertIdle
    /\ ParseIdle
    /\ task_state = [i \in 1..Len(Flatten(expert_tasks)) |->
                        QueuedTask(Flatten(expert_tasks)[i])]
    /\ permits = config.max_concurrent_llm_requests
    /\ elapsed = 0
    /\ gateway_call_after_timeout = FALSE
    /\ chunks = <<>>
    /\ wait_expired = FALSE
    /\ comment_args = <<>>
    /\ built = <<>>
    /\ new_messages = <<>>
    /\ call = NoCall

NextPool ==
    \/ \E i \in TaskIds : Acquire(i)
    \/ \E i \in TaskIds : TaskTurn(i)
    \/ \E i \in TaskIds : ToolReturns(i)
    \/ Gather

NextPoolClock == NextPool \/ Tick

SpecPool == InitPool /\ [][NextPool]_vars

SpecPoolClock == InitPool /\ [][NextPoolClock]_vars

\* The event loop resumes every ready coroutine, the semaphore wakes its
\* waiters in order, and every Gateway call and tool run returns or raises.
SpecPoolFair ==
    /\ SpecPool
    /\ \A i \in TaskIds :
          WF_vars(Acquire(i)) /\ WF_vars(TaskTurn(i)) /\ WF_vars(ToolReturns(i))
    /\ WF_vars(Gather)

\* Task i begins a Gateway call in this step.
call_begins(i) ==
    /\ task_state'[i].phase = "calling"
    /\ task_state'[i].iteration # task_state[i].iteration

\* C38: a task's loop makes at most max_iterations = 10 Gateway calls (the
\* calls begun are counted, and a call begins only after fewer than 10); a
\* response without a tool call ends the loop, so that another turn follows
\* only a response with one; a task that ended has exactly one verdict or
\* none (None); and every task inside the loop ends.
C38_ExpertLoopBounded ==
    /\ [](\A i \in DOMAIN task_state :
             /\ task_state[i].iteration <= max_iterations
             /\ task_state[i].phase # "done" => task_state[i].result = <<>>
             /\ Len(task_state[i].result) <= 1)
    /\ [][\A i \in DOMAIN task_state :
             /\ call_begins(i)
                    => /\ task_state'[i].iteration
                             = task_state[i].iteration + 1
                       /\ task_state[i].iteration < max_iterations
             /\ \A outcome \in TurnOutcomes :
                    (/\ outcome.kind = "response"
                     /\ outcome.tool_calls = <<>>
                     /\ Turn(i, outcome))
                        => task_state'[i].phase = "done"]_vars
    /\ \A i \in TaskIds :
          (i \in DOMAIN task_state /\ i \in running_tasks)
              ~> (i \in DOMAIN task_state /\ task_state[i].phase = "done")

\* C38 witness: one task is in its tenth Gateway call, after nine responses
\* with a tool call each; another ended with its verdict.
C38_Witness ==
    /\ \E i \in DOMAIN task_state :
          /\ task_state[i].phase = "calling"
          /\ task_state[i].iteration = max_iterations
    /\ \E j \in DOMAIN task_state :
          /\ task_state[j].phase = "done"
          /\ Len(task_state[j].result) = 1

\* C7: once the time elapsed since the start of the run reaches
\* timeout_seconds, no expert task starts a new Gateway call.
C7_NoGatewayCallAfterTimeout == ~gateway_call_after_timeout

\* C8: at every instant the number of expert tasks inside the shared
\* semaphore, over all risk-type groups, is at most
\* max_concurrent_llm_requests; every exit path of a task gives its permit
\* back (permits held and permits free always add up to the limit); and every
\* queued task eventually runs.
C8_SemaphoreBoundsAndReleases ==
    /\ [](Cardinality(running_tasks) <= config.max_concurrent_llm_requests)
    /\ [](permits + Cardinality(running_tasks)
              = config.max_concurrent_llm_requests)
    /\ \A i \in TaskIds :
          (i \in DOMAIN task_state /\ task_state[i].phase = "queued")
              ~> (i \in DOMAIN task_state /\ task_state[i].phase # "queued")

\* Task i has a verdict in the results of its group.
contributes(i) ==
    \E g \in 1..Len(expert_results) :
        /\ expert_results[g].key = task_state[i].item.risk_type
        /\ \E k \in 1..Len(expert_results[g].items) :
               expert_results[g].items[k].line_number
                   = task_state[i].item.line_number

\* C12: a task whose Gateway call raised contributes no verdict to
\* expert_results, every other task runs to completion and contributes its
\* verdict, and the stage returns.
C12_FailedTaskAloneContributesNothing ==
    /\ [](stage = "reporter" =>
             /\ \A i \in DOMAIN task_state :
                    /\ task_state[i].phase = "done"
                    /\ task_state[i].raised <=> ~contributes(i)
             /\ Len(Flatten(expert_results))
                    = Cardinality({i \in DOMAIN task_state :
                                      ~task_state[i].raised}))
    /\ <>(stage = "reporter")

\* C12 witness: of three tasks one raised in its first Gateway call, the two
\* others of both groups delivered their verdicts.
C12_Witness ==
    /\ stage = "reporter"
    /\ Len(task_state) = MaxTasks
    /\ task_state[1].raised
    /\ ~task_state[2].raised /\ ~task_state[3].raised
    /\ Len(Flatten(expert_results)) = 2

\* C8 witness: three tasks of two groups went through a semaphore of one
\* permit; one ended with a verdict, one without, and the permit is free again.
C8_Witness ==
    /\ Len(task_state) = MaxTasks
    /\ config.max_concurrent_llm_requests = 1
    /\ \A i \in DOMAIN task_state : task_state[i].phase = "done"
    /\ \E i \in DOMAIN task_state : task_state[i].result = <<>>
    /\ \E i \in DOMAIN task_state : task_state[i].result # <<>>
    /\ permits = 1

-----------------------------------------------------------------------------
(* The chunked intent stage (agents/nodes/intent_analysis_chunked.py): the *)
(* chunks packed from the diff, the Top-K selection, one task per selected *)
(* chunk under a semaphore, and the stage's loop that collects the tasks   *)
(* and cancels them at the budget boundary.                                *)
(*                                                                         *)
(* A chunk is a record: chunk_id (the rank of its id string), files,       *)
(* score, changed_lines, must_include.  A task is a record: its chunk, its *)
(* phase (queued, calling, done, cancelled), its result, and the number of *)
(* the batch the stage collected it in (0: not collected).                 *)

\* _env_int / _env_float: the variable's value, the default when it is unset.
_env(name, default) ==
    IF environ[name] = <<>> THEN default ELSE environ[name][1]

\* math.ceil(float(n) * 0.3), INTENT_CHUNK_TOPK_RATIO at its default.
ceil_topk_ratio(n) == (3 * n + 9) \div 10

\* How many of the sorted rest the selection loop appends after the
\* must-include chunks: it stops as soon as len(selected) >= k.
topk_take(k, must, rest) ==
    IF Len(must) >= k THEN 0 ELSE Min({Len(rest), k - Len(must)})

\* sorted(rest, key=(-score, -changed_lines, chunk_id))
rest_key_less(x, y) ==
    \/ x.score > y.score
    \/ x.score = y.score /\ x.changed_lines > y.changed_lines
    \/ /\ x.score = y.score /\ x.changed_lines = y.changed_lines
       /\ x.chunk_id < y.chunk_id

\* sorted(selected, key=(-must_include, -score, chunk_id))
selected_key_less(x, y) ==
    \/ x.must_include /\ ~y.must_include
    \/ x.must_include = y.must_include /\ x.score > y.score
    \/ /\ x.must_include = y.must_include /\ x.score = y.score
       /\ x.chunk_id < y.chunk_id

\* sorted(skipped, key=(-score, chunk_id))
skipped_key_less(x, y) ==
    \/ x.score > y.score
    \/ x.score = y.score /\ x.chunk_id < y.chunk_id

\* The sort key in use: "rest", "skipped" or "selected".
chunk_less(key, x, y) ==
    CASE key = "rest" -> rest_key_less(x, y)
      [] key = "skipped" -> skipped_key_less(x, y)
      [] OTHER -> selected_key_less(x, y)

RECURSIVE insert_chunk(_, _, _)
insert_chunk(x, sorted, key) ==
    IF sorted = <<>> THEN <<x>>
    ELSE IF chunk_less(key, x, Head(sorted)) THEN <<x>> \o sorted
    ELSE <<Head(sorted)>> \o insert_chunk(x, Tail(sorted), key)

RECURSIVE sort_chunks(_, _)
\* sorted(cs, key=...) by insertion; the keys are total on distinct chunks.
sort_chunks(cs, key) ==
    IF cs = <<>> THEN <<>>
    ELSE insert_chunk(cs[Len(cs)],
                      sort_chunks(SubSeq(cs, 1, Len(cs) - 1), key), key)

\* k = min(n, min(topk_max, max(min_k, ceil(n * topk_ratio))))
topk_k(n) ==
    LET topk_max == _env("INTENT_CHUNK_TOPK_MAX", 10)
        min_k == _env("INTENT_CHUNK_TOPK_MIN", 4)
        k0 == Max({min_k, ceil_topk_ratio(n)})
        k1 == IF topk_max > 0 THEN Min({topk_max, k0}) ELSE k0
    IN Min({n, k1})

\* _select_topk_chunks, the selected chunks (INTENT_CHUNK_SENTINEL_SAMPLE at
\* its default 0: no sentinel).
_select_topk_chunks(cs) ==
    LET disable_topk_below == _env("INTENT_CHUNK_TOPK_DISABLE_BELOW", 4)
        must == SelectSeq(cs, LAMBDA c : c.must_include)
        rest == SelectSeq(cs, LAMBDA c : ~c.must_include)
        rest_sorted == sort_chunks(rest, "rest")
        take == topk_take(topk_k(Len(cs)), must, rest_sorted)
    IN IF cs = <<>> THEN <<>>
       ELSE IF disable_topk_below > 0 /\ Len(cs) < disable_topk_below
       THEN sort_chunks(cs, "selected")
       ELSE sort_chunks(must \o SubSeq(rest_sorted, 1, take), "selected")

\* _select_topk_chunks, the skipped chunks: those the selection left, none
\* when the pruning is off for so few chunks.
skipped_chunks(cs) ==
    LET selected == _select_topk_chunks(cs)
        disable_topk_below == _env("INTENT_CHUNK_TOPK_DISABLE_BELOW", 4)
        remaining == SelectSeq(cs, LAMBDA c :
                                 \A n \in 1..Len(selected) :
                                    selected[n].chunk_id # c.chunk_id)
    IN IF cs = <<>> THEN <<>>
       ELSE IF disable_topk_below > 0 /\ Len(cs) < disable_topk_below
       THEN <<>>
       ELSE sort_chunks(remaining, "skipped")

\* [c.chunk_id for c in cs]
chunk_ids(cs) == [n \in 1..Len(cs) |-> cs[n].chunk_id]

\* The metadata the node returns: a copy of the state's with the record of
\* the selection (INTENT_CHUNK_MAX_CHARS at its default) and, when tasks
\* were cancelled, their number.
chunked_metadata(meta, cs, cancelled) ==
    LET record == [intent_mode |-> "chunked",
                   intent_chunk_depth |-> 2,
                   intent_chunk_max_chars |-> 30000,
                   intent_chunk_topk_selected |->
                       chunk_ids(_select_topk_chunks(cs)),
                   intent_chunk_topk_skipped |-> chunk_ids(skipped_chunks(cs)),
                   intent_chunk_total |-> Len(cs),
                   intent_chunk_selected |-> Len(_select_topk_chunks(cs)),
                   intent_chunk_cancelled_tasks |-> cancelled]
        keys == IF cancelled > 0 THEN DOMAIN record
                ELSE DOMAIN record \ {"intent_chunk_cancelled_tasks"}
    IN [k \in DOMAIN meta \cup keys |->
           IF k \in keys THEN record[k] ELSE meta[k]]

\* The floats of the budget are counted in quarters: a duration in quarters
\* of a second, budget_ratio in quarters of one (0.25 is 1).  The product of
\* a whole number of seconds and a ratio in quarters is a whole number of
\* quarter seconds, and exact in the code's doubles too.
Quarters == 4

\* n seconds as a duration.
Seconds(n) == Quarters * n

\* util.runtime_utils.elapsed_seconds: the time since the run started.
elapsed_seconds == Seconds(elapsed)

\* timeout_s = float(config.system.timeout_seconds)
timeout_s == Seconds(config.timeout_seconds)

\* budget_ratio: INTENT_CHUNK_BUDGET_RATIO, by default 0.25.
budget_ratio == _env("INTENT_CHUNK_BUDGET_RATIO", 1)

\* budget_s: INTENT_CHUNK_BUDGET_SECONDS, by default
\* max(30.0, timeout_s * budget_ratio).
budget_s ==
    _env("INTENT_CHUNK_BUDGET_SECONDS",
         Max({Seconds(30), (timeout_s * budget_ratio) \div Quarters}))

\* soft_margin_s: INTENT_CHUNK_SOFT_MARGIN_SECONDS, by default 60.
soft_margin_s == _env("INTENT_CHUNK_SOFT_MARGIN_SECONDS", Seconds(60))

\* asyncio.create_task(analyze_chunk(c)): a task that has not run yet.
ChunkTask(c) ==
    [chunk |-> c, phase |-> "queued", result |-> <<>>, collected |-> 0]

\* The stage's `pending` set: the tasks no asyncio.wait has handed over yet.
pending_of(ts) ==
    {i \in DOMAIN ts : ts[i].collected = 0 /\ ts[i].phase # "cancelled"}

RECURSIVE results_from(_, _)
\* The stage's `results` list: the batches in the order they were collected.
results_from(ts, n) ==
    IF \A i \in DOMAIN ts : ts[i].collected # n THEN <<>>
    ELSE LET i == CHOOSE j \in DOMAIN ts : ts[j].collected = n
         IN ts[i].result \o results_from(ts, n + 1)

\* The node returns {"file_analyses": results, "metadata": meta}; its early
\* returns give no metadata.
ChunkedReturn(ts, p, meta) ==
    /\ file_analyses' = results_from(ts, 1)
    /\ metadata' = meta
    /\ stage' = "manager"
    /\ ran' = Append(ran, "intent_analysis_chunked")
    /\ task_state' = ts
    /\ permits' = p
    /\ wait_expired' = FALSE

\* t.cancel() for every pending task; a cancelled task leaves its
\* `async with semaphore` block.
cancel_pending(ts) ==
    [i \in DOMAIN ts |->
        IF i \in pending_of(ts) THEN [ts[i] EXCEPT !.phase = "cancelled"]
        ELSE ts[i]]

\* A variant of the loop head that lets the pending tasks run on.
ChunkedLoopHead_without_cancel(ts, p) ==
    IF pending_of(ts) = {}
    THEN ChunkedReturn(ts, p, chunked_metadata(metadata, chunks, 0))
    ELSE /\ task_state' = ts
         /\ permits' = p
         /\ wait_expired' = FALSE
         /\ UNCHANGED <<file_analyses, metadata, stage, ran,
                        commentVars, shrinkVars, callVars>>

\* The head of `while pending`: the loop ends when nothing is pending, the
\* pending tasks are cancelled when remaining <= soft_margin_s, and the stage
\* waits again otherwise.
ChunkedLoopHead(ts, p) ==
    IF pending_of(ts) = {}
    THEN ChunkedReturn(ts, p, chunked_metadata(metadata, chunks, 0))
    ELSE IF Max({0, budget_s - elapsed_seconds}) <= soft_margin_s
    THEN ChunkedReturn(cancel_pending(ts),
                       p + Cardinality({i \in pending_of(ts) :
                                           ts[i].phase = "calling"}),
                       chunked_metadata(metadata, chunks,
                                        Cardinality(pending_of(ts))))
    ELSE /\ task_state' = ts
         /\ permits' = p
         /\ wait_expired' = FALSE
         /\ UNCHANGED <<file_analyses, metadata, stage, ran,
                        commentVars, shrinkVars, callVars>>

\* intent_analysis_chunked_node up to its first asyncio.wait: the early
\* returns, the selection, the tasks, the first turn of the loop.
ChunkedStart ==
    /\ stage = "intent_analysis_chunked"
    /\ ran = <<>>
    /\ task_state = <<>>
    /\ IF ~metadata.llm \/ changed_files = <<>>
       THEN ChunkedReturn(<<>>, permits, metadata)
       ELSE \E selected \in {_select_topk_chunks(chunks)} :
               ChunkedLoopHead([i \in 1..Len(selected) |->
                                   ChunkTask(selected[i])],
                               config.max_concurrent_llm_requests)
    /\ UNCHANGED <<config, changed_files, changed_lines, lint_errors,
                   work_list, expert_tasks, expert_results, confirmed_issues,
                   final_report, elapsed, gateway_call_after_timeout, chunks,
                   expVars, parseVars, environ,
                   commentVars, shrinkVars, callVars>>

\* A variant of the task's entry without the budget check.
chunk_budget_spent_never == FALSE

\* analyze_chunk's check after it entered the semaphore.
chunk_budget_spent == elapsed_seconds >= budget_s

\* analyze_chunk enters the semaphore, the tasks in the order they were
\* created: it returns [] when the budget is spent and starts its Gateway
\* call otherwise.
ChunkAcquire(i) ==
    /\ stage = "intent_analysis_chunked"
    /\ i \in DOMAIN task_state
    /\ task_state[i].phase = "queued"
    /\ \A j \in 1..(i - 1) : task_state[j].phase # "queued"
    /\ permits > 0
    /\ IF chunk_budget_spent
       THEN /\ task_state' = [task_state EXCEPT ![i].phase = "done"]
            /\ UNCHANGED permits
       ELSE /\ task_state' = [task_state EXCEPT ![i].phase = "calling"]
            /\ permits' = permits - 1
    /\ UNCHANGED <<runVars, elapsed, gateway_call_after_timeout, chunkVars,
                   commentVars, shrinkVars, callVars, expVars, parseVars,
                   environ>>

\* What a chunk's Gateway call ends with: it raises, its text does not parse,
\* or it parses to one analysis per file of the chunk and one for a file the
\* chunk does not hold.
ChunkOutcomes == {"exception", "unparseable", "parsed"}

\* analyze_chunk after the call: the analyses of the chunk's own files.
chunk_result(c, outcome) ==
    IF outcome # "parsed" THEN <<>>
    ELSE LET parsed == [n \in 1..Len(c.files) |->
                           FileAnalysis(c.files[n], "summary", <<>>)]
                         \o <<FileAnalysis(<<"z.py">>, "summary", <<>>)>>
         IN SelectSeq(parsed, LAMBDA fa :
                        \E n \in 1..Len(c.files) : c.files[n] = fa.file_path)

\* The Gateway call of a chunk task ends and the task with it.
ChunkCallReturns(i) ==
    /\ stage = "intent_analysis_chunked"
    /\ i \in DOMAIN task_state
    /\ task_state[i].phase = "calling"
    /\ \E outcome \in ChunkOutcomes :
          task_state' = [task_state EXCEPT
                            ![i].phase = "done",
                            ![i].result = chunk_result(task_state[i].chunk,
                                                       outcome)]
    /\ permits' = permits + 1
    /\ UNCHANGED <<runVars, elapsed, gateway_call_after_timeout, chunkVars, commentVars, shrinkVars, callVars,
                   expVars, parseVars, environ>>

\* asyncio.wait returns, with the tasks that are done or on its timeout: the
\* stage extends `results` by the done tasks' batches (in the order the set
\* `done` yields them) and goes to the head of the loop.
ChunkedWake ==
    /\ stage = "intent_analysis_chunked"
    /\ task_state # <<>>
    /\ LET done == {i \in pending_of(task_state) :
                       task_state[i].phase = "done"}
           m == Cardinality({i \in DOMAIN task_state :
                                task_state[i].collected > 0})
       IN /\ wait_expired \/ done # {}
          /\ \E order \in [done -> (m + 1)..(m + Cardinality(done))] :
                /\ \A i, j \in done : i # j => order[i] # order[j]
                /\ ChunkedLoopHead([i \in DOMAIN task_state |->
                                       IF i \in done
                                       THEN [task_state[i] EXCEPT
                                                !.collected = order[i]]
                                       ELSE task_state[i]],
                                   permits)
    /\ UNCHANGED <<config, changed_files, changed_lines, lint_errors,
                   work_list, expert_tasks, expert_results, confirmed_issues,
                   final_report, elapsed, gateway_call_after_timeout, chunks,
                   expVars, parseVars, environ,
                   commentVars, shrinkVars, callVars>>

\* The seconds the chunked stage is observed at.
ChunkClock == (0..3) \cup (28..31) \cup (59..62) \cup (88..91)

\* A second passes while the stage waits: the timeout of its asyncio.wait
\* (at most one second) has passed.
ChunkedTick ==
    /\ stage = "intent_analysis_chunked"
    /\ task_state # <<>>
    /\ ~wait_expired
    /\ elapsed + 1 \in ChunkClock
    /\ elapsed' = elapsed + 1
    /\ wait_expired' = TRUE
    /\ UNCHANGED <<runVars, task_state, permits, gateway_call_after_timeout,
                   chunks, expVars, parseVars, environ,
                   commentVars, shrinkVars, callVars>>

\* The most chunks a diff is packed into.
MaxChunks == 5

ChunkFiles == <<"a.py", "b.py", "c.py", "d.py", "e.py", "f.py">>

\* The chunks _pack_chunks may produce: one file each, ids in order.
ChunkLists(n) ==
    UNION {{[i \in 1..k |->
                [chunk_id |-> i, files |-> << <<"src", ChunkFiles[i]>> >>,
                 score |-> sc[i], changed_lines |-> 1,
                 must_include |-> must[i]]] :
               sc \in [1..k -> {1, 2}], must \in [1..k -> BOOLEAN]} :
              k \in 0..n}

\* The files of a list of chunks, as changed_files.
files_of(cs) == [i \in 1..Len(cs) |-> cs[i].files[1]]

\* Top-K settings that prune already at two chunks.
SmallTopK ==
    [DefaultEnviron EXCEPT !.INTENT_CHUNK_TOPK_DISABLE_BELOW = <<2>>,
                           !.INTENT_CHUNK_TOPK_MAX = <<2>>,
                           !.INTENT_CHUNK_TOPK_MIN = <<1>>]

\* The chunked stage at the start of a run, far from its budget.
InitTopK ==
    /\ stage = "intent_analysis_chunked"
    /\ ran = <<>>
    /\ metadata = [DriverMetadata EXCEPT !.llm = TRUE]
    /\ config = DefaultConfig
    /\ chunks \in ChunkLists(MaxChunks)
    /\ changed_files = files_of(chunks)
    /\ changed_lines = <<>>
    /\ file_analyses = <<>>
    /\ lint_errors = <<>>
    /\ work_list = <<>>
    /\ expert_tasks = <<>>
    /\ expert_results = <<>>
    /\ confirmed_issues = <<>>
    /\ final_report = None
    /\ environ \in {DefaultEnviron, SmallTopK}
    /\ node = "idle"
    /\ messages = <<>>
    /\ tool_bound_calls = 0
    /\ finalize_calls = 0
    /\ risk_context = <<>>
    /\ analysis_result = [returned |-> FALSE, value |-> <<>>]
    /\ ParseIdle
    /\ task_state = <<>>
    /\ permits = 0
    /\ elapsed = 0
    /\ gateway_call_after_timeout = FALSE
    /\ wait_expired = FALSE
    /\ comment_args = <<>>
    /\ built = <<>>
    /\ new_messages = <<>>
    /\ call = NoCall

SpecTopK == InitTopK /\ [][ChunkedStart]_vars

\* C26: with N >= topk_disable_below chunks and no sentinel, the number of
\* chunks selected for analysis is clamp(ceil(N * topk_ratio), topk_min,
\* topk_max), never more than N, for any number of must-include chunks, and
\* every must-include chunk is among the selected.
C26_TopKSelection ==
    (/\ task_state # <<>>
     /\ Len(chunks) >= _env("INTENT_CHUNK_TOPK_DISABLE_BELOW", 4)) =>
        LET N == Len(chunks)
            clamp == Min({_env("INTENT_CHUNK_TOPK_MAX", 10),
                          Max({_env("INTENT_CHUNK_TOPK_MIN", 4),
                               (3 * N + 9) \div 10})})
        IN /\ Len(task_state) = Min({N, clamp})
           /\ \A i \in 1..N :
                 chunks[i].must_include =>
                    \E t \in DOMAIN task_state : task_state[t].chunk = chunks[i]

\* The most chunk tasks of a run of the stage.
MaxChunkTasks == 3

\* A run of the chunked stage: the timeout, the budget settings and the
\* second the stage starts at.
ChunkScenario(t, ratio, budget, margin, start) ==
    [timeout_seconds |-> t, ratio |-> ratio, budget |-> budget,
     margin |-> margin, start |-> start]

\* Runs near the budget boundary: budgets of 150, 30, 30.5, 61 and 2 seconds.
ChunkScenarios ==
    {ChunkScenario(600, <<>>, <<>>, <<>>, 88),
     ChunkScenario(40, <<>>, <<>>, <<>>, 0),
     ChunkScenario(40, <<>>, <<>>, <<Seconds(1)>>, 28),
     ChunkScenario(40, <<>>, <<>>, <<0>>, 28),
     ChunkScenario(122, <<>>, <<>>, <<0>>, 29),
     ChunkScenario(122, <<2>>, <<>>, <<2>>, 59),
     ChunkScenario(600, <<>>, <<Seconds(2)>>, <<Seconds(1)>>, 0)}

InitChunked ==
    /\ stage = "intent_analysis_chunked"
    /\ ran = <<>>
    /\ \E l \in BOOLEAN : metadata = [DriverMetadata EXCEPT !.llm = l]
    /\ chunks \in {cs \in ChunkLists(MaxChunkTasks) :
                      \A i \in 1..Len(cs) :
                         cs[i].score = 1 /\ ~cs[i].must_include}
    /\ changed_files = files_of(chunks)
    /\ \E sc \in ChunkScenarios, c \in {1, 2} :
          /\ config = [DefaultConfig EXCEPT
                          !.timeout_seconds = sc.timeout_seconds,
                          !.max_concurrent_llm_requests = c]
          /\ environ = [DefaultEnviron EXCEPT
                           !.INTENT_CHUNK_BUDGET_RATIO = sc.ratio,
                           !.INTENT_CHUNK_BUDGET_SECONDS = sc.budget,
                           !.INTENT_CHUNK_SOFT_MARGIN_SECONDS = sc.margin]
          /\ elapsed = sc.start
    /\ changed_lines = <<>>
    /\ file_analyses = <<>>
    /\ lint_errors = <<>>
    /\ work_list = <<>>
    /\ expert_tasks = <<>>
    /\ expert_results = <<>>
    /\ confirmed_issues = <<>>
    /\ final_report = None
    /\ node = "idle"
    /\ messages = <<>>
    /\ tool_bound_calls = 0
    /\ finalize_calls = 0
    /\ risk_context = <<>>
    /\ analysis_result = [returned |-> FALSE, value |-> <<>>]
    /\ ParseIdle
    /\ task_state = <<>>
    /\ permits = 0
    /\ gateway_call_after_timeout = FALSE
    /\ wait_expired = FALSE
    /\ comment_args = <<>>
    /\ built = <<>>
    /\ new_messages = <<>>
    /\ call = NoCall

NextChunked ==
    \/ ChunkedStart
    \/ \E i \in 1..MaxChunkTasks : ChunkAcquire(i)
    \/ \E i \in 1..MaxChunkTasks : ChunkCallReturns(i)
    \/ ChunkedWake
    \/ ChunkedTick

SpecChunked == InitChunked /\ [][NextChunked]_vars

\* The analyses of the chunk tasks that ended before the stage returned.
completed_analyses ==
    UNION {{task_state[i].result[n] : n \in 1..Len(task_state[i].result)} :
              i \in {j \in DOMAIN task_state : task_state[j].phase = "done"}}

\* A chunk task starts its Gateway call in this step.
chunk_call_starts ==
    \E i \in DOMAIN task_state :
       /\ i \in DOMAIN task_state'
       /\ task_state[i].phase # "calling"
       /\ task_state'[i].phase = "calling"

\* C27: budget_s is max(30, timeout_seconds * budget_ratio) (where
\* INTENT_CHUNK_BUDGET_SECONDS does not replace it); no chunk Gateway call is
\* started once elapsed >= budget_s; the stage does not go on waiting once it
\* has seen budget_s - elapsed <= soft_margin_s: it has then cancelled every
\* outstanding chunk task and returned, and what it returned are the
\* analyses of the chunks completed before that.
C27_ChunkBudget ==
    /\ [][chunk_call_starts => Quarters * elapsed < budget_s]_vars
    /\ [](/\ (environ.INTENT_CHUNK_BUDGET_SECONDS = <<>>) =>
                 (\/ /\ budget_s = Seconds(30)
                     /\ config.timeout_seconds * budget_ratio <= Seconds(30)
                  \/ /\ budget_s = config.timeout_seconds * budget_ratio
                     /\ budget_s >= Seconds(30))
          /\ (/\ stage = "intent_analysis_chunked"
              /\ task_state # <<>>
              /\ ~wait_expired) =>
                 (budget_s - Quarters * elapsed > soft_margin_s)
          /\ (stage = "manager") =>
                 (/\ \A i \in DOMAIN task_state :
                        task_state[i].phase \in {"done", "cancelled"}
                  /\ {file_analyses[n] : n \in 1..Len(file_analyses)}
                        = completed_analyses))

\* A run with a budget of 30.5 seconds that went on at second 30 and was
\* cancelled at second 31, with one chunk analysed and one not.
C27_Witness ==
    /\ stage = "manager"
    /\ budget_s = 122
    /\ elapsed = 31
    /\ budget_s - elapsed_seconds <= soft_margin_s
    /\ \E i \in DOMAIN task_state : task_state[i].phase = "cancelled"
    /\ \E i \in DOMAIN task_state :
          task_state[i].phase = "done" /\ task_state[i].result # <<>>
    /\ file_analyses # <<>>

\* C37: a stage that started at elapsed time 0 and selected at least one
\* chunk does not cancel every chunk task before a second has passed, that
\* is, before any Gateway call had the time to return.
C37_ChunkTasksGetTheirSecond ==
    (/\ stage = "manager"
     /\ ran = <<"intent_analysis_chunked">>
     /\ task_state # <<>>
     /\ elapsed = 0)
        => \E i \in DOMAIN task_state : task_state[i].phase # "cancelled"

-----------------------------------------------------------------------------
(* The per-file intent stage as a pool of tasks (intent_analysis_node):    *)
(* one analyze_file coroutine per changed file under a semaphore, and the  *)
(* asyncio.gather that returns their analyses in the order of the files.   *)

\* analyze_file(f) before it entered the semaphore.
\* `outcome` records what the task's Gateway call and parsing came to.
FileTask(fp) ==
    [file |-> fp, phase |-> "queued", result |-> <<>>, outcome |-> <<>>]

\* intent_analysis_node up to its gather: the early returns and the tasks.
IntentStart ==
    /\ stage = "intent_analysis"
    /\ ran = <<>>
    /\ task_state = <<>>
    /\ IF ~metadata.llm_provider \/ changed_files = <<>>
       THEN /\ file_analyses' = <<>>
            /\ stage' = "manager"
            /\ ran' = Append(ran, "intent_analysis")
            /\ UNCHANGED <<task_state, permits,
                   commentVars, shrinkVars, callVars>>
       ELSE /\ task_state' = [i \in 1..Len(changed_files) |->
                                 FileTask(changed_files[i])]
            /\ permits' = config.max_concurrent_llm_requests
            /\ UNCHANGED <<file_analyses, stage, ran,
                   commentVars, shrinkVars, callVars>>
    /\ UNCHANGED <<metadata, config, changed_files, changed_lines, lint_errors,
                   work_list, expert_tasks, expert_results, confirmed_issues,
                   final_report, elapsed, gateway_call_after_timeout, chunkVars, commentVars, shrinkVars, callVars,
                   expVars, parseVars, environ>>

\* analyze_file enters `async with semaphore`: the tasks of the gather start
\* in the order of the files and the semaphore wakes its waiters in the
\* order they arrived.
IntentAcquire(i) ==
    /\ stage = "intent_analysis"
    /\ i \in DOMAIN task_state
    /\ task_state[i].phase = "queued"
    /\ \A j \in 1..(i - 1) : task_state[j].phase # "queued"
    /\ permits > 0
    /\ permits' = permits - 1
    /\ task_state' = [task_state EXCEPT ![i].phase = "running"]
    /\ UNCHANGED <<runVars, elapsed, gateway_call_after_timeout, chunkVars, commentVars, shrinkVars, callVars,
                   expVars, parseVars, environ>>

\* analyze_file returns its FileAnalysis and leaves the semaphore.
IntentFinish(i) ==
    /\ stage = "intent_analysis"
    /\ i \in DOMAIN task_state
    /\ task_state[i].phase = "running"
    /\ \E outcome \in IntentOutcomes(task_state[i].file) :
          task_state' =
              [task_state EXCEPT
                  ![i].phase = "done",
                  ![i].outcome = <<outcome>>,
                  ![i].result =
                      <<analyze_file(task_state[i].file, outcome).analysis>>]
    /\ permits' = permits + 1
    /\ UNCHANGED <<runVars, elapsed, gateway_call_after_timeout, chunkVars, commentVars, shrinkVars, callVars,
                   expVars, parseVars, environ>>

\* A variant that returns with the first analysis (asyncio.wait with
\* FIRST_COMPLETED in place of asyncio.gather).
gathered_first_completed(ts) == \E i \in DOMAIN ts : ts[i].phase = "done"

\* asyncio.gather(*tasks) returns: every task has returned.
gathered(ts) == \A i \in DOMAIN ts : ts[i].phase = "done"

\* The gather returns and the node with it.
IntentGather ==
    /\ stage = "intent_analysis"
    /\ task_state # <<>>
    /\ gathered(task_state)
    /\ file_analyses' = [i \in {j \in DOMAIN task_state :
                                   task_state[j].phase = "done"} |->
                            task_state[i].result[1]]
    /\ stage' = "manager"
    /\ ran' = Append(ran, "intent_analysis")
    /\ UNCHANGED <<metadata, config, changed_files, changed_lines, lint_errors,
                   work_list, expert_tasks, expert_results, confirmed_issues,
                   final_report, notRunVars>>

InitIntentPool ==
    /\ stage = "intent_analysis"
    /\ ran = <<>>
    /\ \E l \in BOOLEAN : metadata = [DriverMetadata EXCEPT !.llm_provider = l]
    /\ \E c \in {1, 2} :
          config = [DefaultConfig EXCEPT !.max_concurrent_llm_requests = c]
    /\ changed_files \in {<<>>, << <<"x.py">> >>, << <<"x.py">>, <<"y.py">> >>}
    /\ changed_lines = [fp \in {<<"x.py">>, <<"y.py">>} |-> {2}]
    /\ file_analyses = <<>>
    /\ lint_errors = <<>>
    /\ work_list = <<>>
    /\ expert_tasks = <<>>
    /\ expert_results = <<>>
    /\ confirmed_issues = <<>>
    /\ final_report = None
    /\ NotRunIdle

NextIntentPool ==
    \/ IntentStart
    \/ \E i \in 1..2 : IntentAcquire(i)
    \/ \E i \in 1..2 : IntentFinish(i)
    \/ IntentGather

\* C32: no step of a stage changes RunState.metadata in place: neither a
\* stage node nor an expert task that runs concurrently with others writes
\* to it.
C32_NoInPlaceMutation == [][metadata' = metadata]_vars

\* C30: in a run whose metadata is what the driver injected for a configured
\* Gateway, no stage takes its "LLM not found in metadata" early return: the
\* run does not end with the Reporter's "LLM unavailable" report.
C30_DriverInjectsEveryDependency ==
    (stage = "END" /\ metadata = DriverMetadata) =>
        final_report # "llm_unavailable"

\* The normalization the specification states: n and [n] become [n, n],
\* [a, b] with a <= b is kept, anything else is rejected.
line_number_as_specified(v) ==
    CASE v.kind = "int" ->
            [raised |-> FALSE, value |-> <<v.items[1], v.items[1]>>]
      [] v.kind = "list" /\ Len(v.items) = 1 ->
            [raised |-> FALSE, value |-> <<v.items[1], v.items[1]>>]
      [] v.kind = "list" /\ Len(v.items) = 2 /\ v.items[1] <= v.items[2] ->
            [raised |-> FALSE, value |-> <<v.items[1], v.items[2]>>]
      [] OTHER -> [raised |-> TRUE]

RECURSIVE line_numbers_as_specified(_)
line_numbers_as_specified(risks_data) ==
    IF risks_data = <<>> THEN <<>>
    ELSE (IF line_number_as_specified(Head(risks_data).line_number).raised
          THEN <<>>
          ELSE <<line_number_as_specified(
                     Head(risks_data).line_number).value>>)
             \o line_numbers_as_specified(Tail(risks_data))

\* C28: the RiskItems made from a model response are the risks whose
\* line_number is an integer n or a list [n] (normalized to [n, n]) or a list
\* [a, b] with a <= b (kept); every other risk is rejected.
C28_LineNumberNormalization ==
    \A i \in DOMAIN task_state :
        (task_state[i].phase = "done"
            /\ task_state[i].outcome[1].kind = "parsed") =>
           [j \in 1..Len(task_state[i].result[1].potential_risks) |->
               task_state[i].result[1].potential_risks[j].line_number]
             = line_numbers_as_specified(task_state[i].outcome[1].risks)

\* C25: a verdict of a risk type without a per-type threshold is in
\* confirmed_issues only when its confidence is at least the configured
\* system.confidence_threshold.
C25_ConfiguredThresholdFilters ==
    (stage = "END") =>
        \A i \in 1..Len(confirmed_issues) :
            confirmed_issues[i].risk_type
                  \notin DOMAIN config.confidence_threshold_by_risk_type
               => confirmed_issues[i].confidence >= config.confidence_threshold

\* C24: a run on an empty diff (no changed files, no lint errors) calls the
\* Gateway in no stage (no analyses, no work items, no verdicts, no report
\* written by the model) and ends with confirmed_issues = [] and the fixed
\* "no issues" report text.
C24_EmptyDiffNoIssues ==
    (stage = "END" /\ changed_files = <<>> /\ lint_errors = <<>>) =>
        /\ file_analyses = <<>>
        /\ work_list = <<>>
        /\ \A i \in DOMAIN expert_results : expert_results[i] = <<>>
        /\ confirmed_issues = <<>>
        /\ final_report = "no_issues"

\* The per-file intent stage from its start to the Manager's.
SpecIntentPool == InitIntentPool /\ [][NextIntentPool]_vars

\* The outcomes in which the Gateway call or the parsing of its response
\* fails, and the summaries analyze_file gives for them.
FailureKinds == {"gateway_error", "malformed", "not_an_object"}

DiagnosticSummaries ==
    {"Error analyzing file", "response[:500]", "Error parsing response"}

\* C23: the per-file intent stage hands the Manager exactly one FileAnalysis
\* for every changed file, in the order of changed_files: the i-th analysis
\* is the analysis of the i-th file (it carries that file's path) and is what
\* that file's own response gives, whatever the other files' calls came to;
\* a file whose Gateway call failed or whose response could not be parsed
\* (the text is not JSON, or not a JSON object) has an analysis without risks
\* and with a diagnostic summary; and the stage itself does not fail.
C23_OneAnalysisPerFile ==
    /\ stage # "error"
    /\ (stage = "manager" /\ ran = <<"intent_analysis">>
            /\ metadata.llm_provider) =>
          /\ Len(file_analyses) = Len(changed_files)
          /\ \A i \in 1..Len(changed_files) :
                /\ task_state[i].file = changed_files[i]
                /\ file_analyses[i].file_path = changed_files[i]
                /\ file_analyses[i] =
                       analyze_file(changed_files[i],
                                    task_state[i].outcome[1]).analysis
                /\ (task_state[i].outcome[1].kind \in FailureKinds) =>
                      (/\ file_analyses[i].potential_risks = <<>>
                       /\ file_analyses[i].intent_summary
                              \in DiagnosticSummaries)

\* The fan-out stages, each from its start to the stage after it.  A run has
\* one intent stage, per file or chunked, and manager_node hands the expert
\* stage no task of a run from the entry point, so that the three boundaries
\* are crossed in three kinds of behaviour.
SpecBarrier ==
    /\ InitIntentPool \/ InitChunked \/ InitPool
    /\ [][NextIntentPool \/ NextChunked \/ NextPool]_vars

\* The tasks of the stage that has just returned that are still running.
still_running ==
    {i \in DOMAIN task_state :
        task_state[i].phase \in {"queued", "running", "calling", "tools"}}

\* The files a chunk task was to analyse.
chunk_files(i) ==
    {task_state[i].chunk.files[k] : k \in 1..Len(task_state[i].chunk.files)}

\* C22: when the Manager starts no intent task is still running (after the
\* per-file stage every task has returned, after the chunked stage every
\* task has returned or was cancelled), when the Reporter starts no expert
\* task is still running, and a chunk task cancelled at the budget boundary
\* contributes no FileAnalysis to the output of the chunked stage.
C22_StageBarriers ==
    /\ (stage = "manager") => (still_running = {})
    /\ (stage = "manager" /\ ran = <<"intent_analysis">>) =>
          \A i \in DOMAIN task_state : task_state[i].phase = "done"
    /\ (stage = "reporter") =>
          (/\ still_running = {}
           /\ \A i \in DOMAIN task_state : task_state[i].phase = "done")
    /\ (stage = "manager" /\ ran = <<"intent_analysis_chunked">>) =>
          \A i \in DOMAIN task_state :
             task_state[i].phase = "cancelled" =>
                \A n \in 1..Len(file_analyses) :
                   file_analyses[n].file_path \notin chunk_files(i)

\* The Manager is about to start after two files were analysed one at a time.
intent_barrier_crossed ==
    /\ stage = "manager"
    /\ ran = <<"intent_analysis">>
    /\ config.max_concurrent_llm_requests = 1
    /\ Len(task_state) = 2
    /\ Len(file_analyses) = 2

\* The Reporter is about to start after the expert tasks of the work list
\* went through a semaphore of two permits and every one gave a verdict.
reporter_barrier_crossed ==
    /\ stage = "reporter"
    /\ ran[Len(ran)] = "expert_execution"
    /\ config.max_concurrent_llm_requests = 2
    /\ Len(task_state) = 3
    /\ \A i \in DOMAIN task_state : task_state[i].phase = "done"
    /\ Len(Flatten(expert_results)) = 3

\* The Manager is about to start after the chunked stage cancelled a chunk
\* task in its Gateway call and returned the analysis of another.
cancelled_chunk_dropped ==
    /\ stage = "manager"
    /\ ran = <<"intent_analysis_chunked">>
    /\ \E i \in DOMAIN task_state : task_state[i].phase = "cancelled"
    /\ \E i \in DOMAIN task_state :
          task_state[i].phase = "done" /\ task_state[i].result # <<>>
    /\ Len(file_analyses) = 1

\* A boundary has been crossed: the state is the one after the per-file
\* stage, after the expert stage, or after a chunked stage that cancelled.
C22_Witness ==
    \/ intent_barrier_crossed
    \/ reporter_barrier_crossed
    \/ cancelled_chunk_dropped

-----------------------------------------------------------------------------
(* Review comments (github_pat/comment_builder.py)                         *)
(*                                                                         *)
(* A diff is the sequence of its file sections: the path of the header,    *)
(* the new-side line the hunk starts at and the kinds of the hunk's lines  *)
(* ("+", "-" or " "). An issue is a RiskItem dict; `id` tells the issues of *)
(* one call apart.                                                         *)

RECURSIVE new_file_lines(_, _)
\* The new-side line numbers of a hunk: added and context lines count.
new_file_lines(start, kinds) ==
    IF kinds = <<>> THEN {}
    ELSE IF Head(kinds) = "-" THEN new_file_lines(start, Tail(kinds))
    ELSE {start} \cup new_file_lines(start + 1, Tail(kinds))

\* util.diff_utils.parse_diff_with_line_numbers: per file of the diff, in the
\* order of the diff, the lines of the new file.
parse_diff_with_line_numbers(pr_diff) ==
    [i \in 1..Len(pr_diff) |->
        [path |-> pr_diff[i].path,
         new_file_lines |-> new_file_lines(pr_diff[i].start, pr_diff[i].kinds)]]

RECURSIVE strip_leading_slashes(_)
\* while p.startswith("/"): p = p[1:]
strip_leading_slashes(p) ==
    IF Len(p) >= 2 /\ p[1] = "" THEN strip_leading_slashes(Tail(p)) ELSE p

\* comment_builder._normalize_path: strip one leading "a/" or "b/", then every
\* leading "/".
comment_builder_normalize_path(p) ==
    strip_leading_slashes(
        IF Len(p) >= 2 /\ p[1] \in {"a", "b"} THEN Tail(p) ELSE p)

\* commentable_lines_by_path.get(file_path): a later section of the same
\* normalized path overwrites an earlier one; {} when there is none.
commentable_lines_by_path(contexts, file_path) ==
    LET hits == {i \in 1..Len(contexts) :
                    comment_builder_normalize_path(contexts[i].path)
                        = file_path}
    IN IF hits = {} THEN {} ELSE contexts[Max(hits)].new_file_lines

\* The line an issue is commented on, <<>> when there is none: start_line
\* itself, else the first commentable line of the range widened by
\* max_line_fuzz, else the nearest commentable line within max_line_fuzz.
selected_line(commentable, start_line, end_line, max_line_fuzz) ==
    IF start_line \in commentable THEN <<start_line>>
    ELSE LET range_start == IF max_line_fuzz > 0
                            THEN Max({1, start_line - max_line_fuzz})
                            ELSE start_line
             range_end == IF max_line_fuzz > 0
                          THEN Max({start_line, end_line}) + max_line_fuzz
                          ELSE Max({start_line, end_line})
             candidates == {c \in range_start..range_end : c \in commentable}
             nearest == {c \in commentable :
                            \A d \in commentable :
                               Abs(c - start_line) <= Abs(d - start_line)}
         IN IF candidates # {} THEN <<Min(candidates)>>
            ELSE IF max_line_fuzz > 0 /\ nearest # {}
                    /\ Abs(Min(nearest) - start_line) <= max_line_fuzz
            THEN <<Min(nearest)>>
            ELSE <<>>

\* The group key of an issue, <<>> when the issue is skipped.
issue_key(contexts, issue, max_line_fuzz) ==
    LET file_path == comment_builder_normalize_path(issue.file_path)
        line_range == IF issue.line_number = <<>> THEN <<0, 0>>
                      ELSE issue.line_number
        commentable == commentable_lines_by_path(contexts, file_path)
    IN IF file_path = <<"">> \/ commentable = {} \/ line_range[1] <= 0
       THEN <<>>
       ELSE LET line == selected_line(commentable, line_range[1],
                                      line_range[2], max_line_fuzz)
            IN IF line = <<>> THEN <<>> ELSE << <<file_path, line[1]>> >>

\* grouped.setdefault(key, []).append(issue)
add_to_group(grouped, key, issue) ==
    IF \E g \in 1..Len(grouped) : grouped[g].key = key
    THEN [g \in 1..Len(grouped) |->
             IF grouped[g].key = key
             THEN [grouped[g] EXCEPT !.items = Append(@, issue)]
             ELSE grouped[g]]
    ELSE Append(grouped, [key |-> key, items |-> <<issue>>])

RECURSIVE group_issues(_, _, _, _, _)
\* The loop over confirmed_issues: the groups in the order their keys first
\* appear, and the issues skipped on the way.
group_issues(contexts, issues, max_line_fuzz, grouped, skipped) ==
    IF issues = <<>> THEN [grouped |-> grouped, skipped |-> skipped]
    ELSE LET key == issue_key(contexts, Head(issues), max_line_fuzz) IN
         IF key = <<>>
         THEN group_issues(contexts, Tail(issues), max_line_fuzz, grouped,
                           Append(skipped, Head(issues)))
         ELSE group_issues(contexts, Tail(issues), max_line_fuzz,
                           add_to_group(grouped, key[1], Head(issues)),
                           skipped)

\* _severity_rank of the comment builder: s = (severity or "info").lower(),
\* without a strip.
comment_builder_severity_rank(severity) ==
    LET s == Lower(IF severity = <<>> THEN Info ELSE severity)
    IN CASE s = Error -> 3
         [] s = Warning -> 2
         [] OTHER -> 1

\* group_score: (highest severity rank, highest confidence) of the group.
group_score(group) ==
    <<Max({comment_builder_severity_rank(group.items[i].severity) :
               i \in 1..Len(group.items)}),
      Max({0} \cup {group.items[i].confidence : i \in 1..Len(group.items)})>>

\* Tuple comparison of two scores.
score_greater(x, y) == x[1] > y[1] \/ (x[1] = y[1] /\ x[2] > y[2])

RECURSIVE sorted_by_score(_)
\* sorted(..., key=group_score, reverse=True): descending and stable.
sorted_by_score(groups) ==
    IF groups = <<>> THEN <<>>
    ELSE LET rest == sorted_by_score(Tail(groups))
             g == Head(groups)
             before == {i \in 1..Len(rest) :
                           score_greater(group_score(rest[i]), group_score(g))}
         IN SelectSeqBy(rest, before) \o <<g>>
               \o SelectSeqBy(rest, (1..Len(rest)) \ before)

\* seq[:n] of Python: the first n elements, all but the last -n when n < 0.
slice_to(seq, n) ==
    LET stop == IF n >= 0 THEN Min({n, Len(seq)})
                ELSE Max({0, Len(seq) + n})
    IN SubSeq(seq, 1, stop)

\* A variant that forgets the groups cut off by max_review_comments.
skipped_after_cut_without_groups(grouped, skipped, review_comments) == skipped

\* skipped.extend(items) for every group whose key is not among the returned
\* comments.
skipped_after_cut(grouped, skipped, review_comments) ==
    LET included_keys == {<<review_comments[c].path, review_comments[c].line>> :
                             c \in 1..Len(review_comments)}
    IN skipped \o Flatten(SelectSeqBy(grouped,
                      {g \in 1..Len(grouped) :
                          grouped[g].key \notin included_keys}))

\* build_review_comments: the returned BuiltComments; a comment's `items` are
\* the issues its body lists.
build_review_comments(pr_diff, confirmed, max_review_comments, max_line_fuzz) ==
    LET contexts == parse_diff_with_line_numbers(pr_diff)
        loop == group_issues(contexts, confirmed, max_line_fuzz, <<>>, <<>>)
        sorted_groups == slice_to(sorted_by_score(loop.grouped),
                                  max_review_comments)
        review_comments ==
            [c \in 1..Len(sorted_groups) |->
                [path |-> sorted_groups[c].key[1],
                 line |-> sorted_groups[c].key[2],
                 side |-> "RIGHT",
                 items |-> sorted_groups[c].items]]
    IN [review_comments |-> review_comments,
        skipped |-> skipped_after_cut(loop.grouped, loop.skipped,
                                      review_comments),
        total_issues |-> Len(confirmed)]

\* The call of build_review_comments.
BuildReviewComments ==
    /\ comment_args # <<>>
    /\ built = <<>>
    /\ new_messages = <<>>
    /\ call = NoCall
    /\ built' = <<build_review_comments(comment_args[1].pr_diff,
                                        comment_args[1].confirmed_issues,
                                        comment_args[1].max_review_comments,
                                        comment_args[1].max_line_fuzz)>>
    /\ UNCHANGED <<runVars, expVars, parseVars, poolVars, chunkVars, environ,
                   comment_args, shrinkVars, callVars>>

\* The most issues of one call.
MaxIssues == 3

Issue(id, fp, ln, sev, conf) ==
    [id |-> id, file_path |-> fp, line_number |-> ln, severity |-> sev,
     confidence |-> conf]

\* Issues on and off the diff: two on the same line, one a line below the
\* hunk, one far from it, one of another file, one without line or path.
CommentIssues ==
    {Issue(1, <<"x.py">>, <<10, 10>>, Warning, 7),
     Issue(2, <<"b", "x.py">>, <<10, 12>>, Error, 6),
     Issue(3, <<"x.py">>, <<13, 13>>, Info, 9),
     Issue(4, <<"x.py">>, <<40, 41>>, Error, 9),
     Issue(5, <<"", "y.py">>, <<3, 3>>, Error, 8),
     Issue(6, <<"z.py">>, <<1, 1>>, Error, 8),
     Issue(7, <<"">>, <<>>, Error, 8)}

\* x.py with new lines 10..12 (one line removed), y.py with new lines 3, 4.
CommentDiffs ==
    {<<>>,
     <<[path |-> <<"b", "x.py">>, start |-> 10,
        kinds |-> <<" ", "-", "+", "+">>]>>,
     <<[path |-> <<"b", "x.py">>, start |-> 10,
        kinds |-> <<" ", "-", "+", "+">>],
       [path |-> <<"b", "y.py">>, start |-> 3, kinds |-> <<"+", "+">>]>>}

InitComments ==
    /\ stage = "END"
    /\ ran = <<>>
    /\ metadata = DriverMetadata
    /\ config = DefaultConfig
    /\ changed_files = <<>>
    /\ changed_lines = <<>>
    /\ file_analyses = <<>>
    /\ lint_errors = <<>>
    /\ work_list = <<>>
    /\ expert_tasks = <<>>
    /\ expert_results = <<>>
    /\ \E ids \in SUBSET {i.id : i \in CommentIssues} :
          /\ Cardinality(ids) <= MaxIssues
          /\ confirmed_issues \in
                {s \in [1..Cardinality(ids) -> CommentIssues] :
                    {s[i].id : i \in 1..Len(s)} = ids}
    /\ final_report = ""
    /\ ExpertIdle /\ ParseIdle
    /\ task_state = <<>>
    /\ permits = 0
    /\ elapsed = 0
    /\ gateway_call_after_timeout = FALSE
    /\ chunks = <<>>
    /\ wait_expired = FALSE
    /\ \E d \in CommentDiffs, n \in 0..2, f \in 0..1 :
          comment_args = <<[pr_diff |-> d,
                            confirmed_issues |-> confirmed_issues,
                            max_review_comments |-> n,
                            max_line_fuzz |-> f]>>
    /\ built = <<>>
    /\ new_messages = <<>>
    /\ call = NoCall

SpecComments == InitComments /\ [][BuildReviewComments]_vars

\* C29: build_review_comments returns at most max_review_comments comments,
\* each on a line of the new side of its path in the diff; every input issue
\* is in the group of exactly one returned comment or once in the skipped list
\* and in no two places, so total_issues is the number of issues grouped in
\* the returned comments plus the length of the skipped list.
C29_CommentsPartitionIssues ==
    built # <<>> =>
        LET b == built[1]
            args == comment_args[1]
            contexts == parse_diff_with_line_numbers(args.pr_diff)
            places(issue) ==
                Cardinality({<<c, k>> \in (1..Len(b.review_comments))
                                             \X (1..MaxIssues + 1) :
                                k <= Len(b.review_comments[c].items)
                                /\ b.review_comments[c].items[k] = issue})
                + Cardinality({k \in 1..Len(b.skipped) : b.skipped[k] = issue})
        IN /\ Len(b.review_comments) <= args.max_review_comments
           /\ \A c \in 1..Len(b.review_comments) :
                 b.review_comments[c].line \in
                     commentable_lines_by_path(contexts,
                                               b.review_comments[c].path)
           /\ \A i \in 1..Len(args.confirmed_issues) :
                 places(args.confirmed_issues[i]) = 1
           /\ b.total_issues = Len(Flatten(b.review_comments)) + Len(b.skipped)
           /\ b.total_issues = Len(args.confirmed_issues)

\* Three issues were built into one comment of two issues on x.py line 10,
\* the third, cut off by max_review_comments = 1, went to the skipped list.
C29_Witness ==
    /\ built # <<>>
    /\ comment_args[1].max_review_comments = 1
    /\ Len(built[1].review_comments) = 1
    /\ Len(built[1].review_comments[1].items) = 2
    /\ built[1].review_comments[1].line = 10
    /\ Len(built[1].skipped) = 1
    /\ \E k \in 1..Len(comment_args[1].confirmed_issues) :
          /\ issue_key(parse_diff_with_line_numbers(comment_args[1].pr_diff),
                       comment_args[1].confirmed_issues[k],
                       comment_args[1].max_line_fuzz) # <<>>
          /\ built[1].skipped[1] = comment_args[1].confirmed_issues[k]

-----------------------------------------------------------------------------
(* The reasoner's request (ExpertGraphRuntime.reasoner, shrink_history)    *)
(*                                                                         *)
(* Here a message also carries the length of its content in characters,    *)
(* the position it was appended at (`pos`, which tells the messages of a   *)
(* history apart) and, for a tool message, the position of the assistant   *)
(* message whose tool call it answers (`of`) and whether its content is a   *)
(* no-signal result.                                                       *)

SizedMessage(type, n, chars, pos, of) ==
    [type |-> type, tool_calls |-> n, chars |-> chars, pos |-> pos, of |-> of,
     no_signal |-> FALSE]

\* The length of the reasoner's fixed first user message.
UserMsgChars == 45

\* len("\n...[truncated]...")
TruncatedSuffixChars == 18

\* _truncate_text on a content of n characters: the length of the result.
_truncate_text(n, max_chars) ==
    IF max_chars <= 0 THEN 0
    ELSE IF n <= max_chars THEN n
    ELSE max_chars + TruncatedSuffixChars

RECURSIVE collect_stop(_, _, _, _, _)
\* The first while loop of shrink_history, from the end of the history: the
\* index it stops at (everything after it is collected).
collect_stop(msgs, idx, collected, need_prev_for_tool, max_history) ==
    IF idx >= 1 /\ (collected < max_history \/ need_prev_for_tool)
    THEN collect_stop(msgs, idx - 1, collected + 1, msgs[idx].type = "tool",
                      max_history)
    ELSE idx

\* A variant that leaves tool messages at the front.
drop_leading_tools_never(msgs) == msgs

RECURSIVE drop_leading_tools(_)
\* while collected and isinstance(collected[0], ToolMessage): collected.pop(0)
drop_leading_tools(msgs) ==
    IF msgs # <<>> /\ Head(msgs).type = "tool"
    THEN drop_leading_tools(Tail(msgs)) ELSE msgs

\* The latest user message of a prefix put back in front when the collected
\* messages hold none.
with_latest_human(collected, prefix) ==
    LET humans == {i \in 1..Len(prefix) : prefix[i].type = "human"} IN
    IF collected # <<>>
       /\ (\A i \in 1..Len(collected) : collected[i].type # "human")
       /\ humans # {}
    THEN <<prefix[Max(humans)]>> \o collected
    ELSE collected

\* A content over its limit is truncated.
clip_chars(n, max_chars) ==
    IF n > max_chars THEN _truncate_text(n, max_chars) ELSE n

\* Tool and assistant contents are clipped, the others kept.
clip_message(m, max_tool_chars, max_ai_chars) ==
    CASE m.type = "tool" ->
            [m EXCEPT !.chars = clip_chars(m.chars, max_tool_chars)]
      [] m.type = "ai" ->
            [m EXCEPT !.chars = clip_chars(m.chars, max_ai_chars)]
      [] OTHER -> m

RECURSIVE total_chars(_)
total_chars(msgs) ==
    IF msgs = <<>> THEN 0 ELSE Head(msgs).chars + total_chars(Tail(msgs))

RECURSIVE drop_over_total(_, _)
\* The last while loop of shrink_history: messages are popped from the front,
\* each time with the tool messages that then lead.
drop_over_total(clipped, max_total_chars) ==
    IF Len(clipped) > 1 /\ total_chars(clipped) > max_total_chars
    THEN drop_over_total(drop_leading_tools(Tail(clipped)), max_total_chars)
    ELSE clipped

\* shrink_history, with the settings read from the environment.
shrink_history(msgs, env) ==
    LET max_history == Max({1, env.EXPERT_MAX_HISTORY_MESSAGES})
        max_total_chars == Max({10000, env.EXPERT_MAX_TOTAL_CHARS})
        max_tool_chars == Max({500, env.EXPERT_MAX_TOOL_CHARS})
        max_ai_chars == Max({500, env.EXPERT_MAX_AI_CHARS})
        idx == collect_stop(msgs, Len(msgs), 0, FALSE, max_history)
        collected ==
            with_latest_human(
                drop_leading_tools(SubSeq(msgs, idx + 1, Len(msgs))),
                SubSeq(msgs, 1, idx))
        clipped == [i \in 1..Len(collected) |->
                       clip_message(collected[i], max_tool_chars, max_ai_chars)]
    IN IF msgs = <<>> THEN <<>>
       ELSE drop_over_total(clipped, max_total_chars)

\* The most messages of a history.
MaxShrinkMessages == 10

\* Content lengths of assistant and of tool messages: short ones and ones
\* over the truncation limits.
AIChars == {100, 13000}
ToolChars == {100, 7000}

\* The reasoner's first call: the history is empty, neither breaker acts,
\* the request is the fixed user message, and the history becomes
\* [user_msg, response].
ReasonerFirstRequest ==
    /\ messages = <<>>
    /\ ~circuit_breaker_trips(messages, config)
    /\ ~tool_budget_stops(messages, config)
    /\ \E n \in 0..2, c \in AIChars :
          /\ new_messages' = << <<SizedMessage("human", 0, UserMsgChars, 1, 0)>> >>
          /\ messages' = <<SizedMessage("human", 0, UserMsgChars, 1, 0),
                           SizedMessage("ai", n, c, 2, 0)>>
    /\ UNCHANGED <<node, tool_bound_calls, finalize_calls, risk_context,
                   analysis_result, runVars, parseVars, poolVars, chunkVars,
                   commentVars, callVars, environ>>

\* A later tool-bound call of the reasoner, when neither handle_circuit_breaker
\* nor handle_tool_budget acts: the request is the shrunken history, the
\* response is appended.
ReasonerShrunkRequest ==
    /\ messages # <<>>
    /\ messages[Len(messages)].type = "tool"
    /\ Len(messages) < MaxShrinkMessages
    /\ ~circuit_breaker_trips(messages, config)
    /\ ~tool_budget_stops(messages, config)
    /\ \E n \in 0..2, c \in AIChars :
          /\ new_messages' = <<shrink_history(messages, environ)>>
          /\ messages' = Append(messages,
                 SizedMessage("ai", n, c, Len(messages) + 1, 0))
    /\ UNCHANGED <<node, tool_bound_calls, finalize_calls, risk_context,
                   analysis_result, runVars, parseVars, poolVars, chunkVars,
                   commentVars, callVars, environ>>

\* The tools node: one tool message per tool call of the last response.
ToolsAnswer ==
    /\ messages # <<>>
    /\ messages[Len(messages)].type = "ai"
    /\ messages[Len(messages)].tool_calls > 0
    /\ Len(messages) + messages[Len(messages)].tool_calls <= MaxShrinkMessages
    /\ \E c \in ToolChars, ns \in BOOLEAN :
          messages' = messages \o
              [k \in 1..messages[Len(messages)].tool_calls |->
                  [SizedMessage("tool", 0, c, Len(messages) + k, Len(messages))
                      EXCEPT !.no_signal = ns]]
    /\ UNCHANGED <<node, tool_bound_calls, finalize_calls, risk_context,
                   analysis_result, runVars, parseVars, poolVars, chunkVars,
                   commentVars, shrinkVars, callVars, environ>>

InitShrink ==
    /\ stage = "expert_execution"
    /\ ran = <<>>
    /\ metadata = DriverMetadata
    /\ config = DefaultConfig
    /\ changed_files = <<>>
    /\ changed_lines = <<>>
    /\ file_analyses = <<>>
    /\ lint_errors = <<>>
    /\ work_list = <<>>
    /\ expert_tasks = <<>>
    /\ expert_results = <<>>
    /\ confirmed_issues = <<>>
    /\ final_report = ""
    /\ environ \in {DefaultEnviron,
                    [DefaultEnviron EXCEPT !.EXPERT_MAX_HISTORY_MESSAGES = 3],
                    [DefaultEnviron EXCEPT !.EXPERT_MAX_TOTAL_CHARS = 10000]}
    /\ node = "reasoner"
    /\ messages = <<>>
    /\ tool_bound_calls = 0
    /\ finalize_calls = 0
    /\ risk_context = <<>>
    /\ analysis_result = [returned |-> FALSE, value |-> <<>>]
    /\ ParseIdle
    /\ PoolIdle

NextShrink == ReasonerFirstRequest \/ ReasonerShrunkRequest \/ ToolsAnswer

SpecShrink == InitShrink /\ [][NextShrink]_vars

\* C33: the history of a request holds a user message (the reasoner's first),
\* and so the shrunken history sent to the Gateway is not empty and holds at
\* least one user message, also after messages were dropped from the front
\* to get under EXPERT_MAX_TOTAL_CHARS.
C33_ShrunkKeepsUserMessage ==
    new_messages # <<>> =>
        /\ new_messages[1] # <<>>
        /\ \E i \in 1..Len(new_messages[1]) : new_messages[1][i].type = "human"

\* C34: the shrunken history does not start with a tool message, every tool
\* message in it comes after the assistant message whose tool call it
\* answers, its messages are in the order of the full history, and the full
\* history only grows by appending.
C34_ShrunkKeepsOrder ==
    /\ [](new_messages # <<>> =>
            LET r == new_messages[1] IN
            /\ r # <<>> => r[1].type # "tool"
            /\ \A i \in 1..Len(r) :
                  r[i].type = "tool" =>
                     \E j \in 1..(i - 1) :
                        r[j].type = "ai" /\ r[j].pos = r[i].of
            /\ \A i, j \in 1..Len(r) : i < j => r[i].pos < r[j].pos)
    /\ [][/\ Len(messages') >= Len(messages)
          /\ SubSeq(messages', 1, Len(messages)) = messages]_vars

\* A request was cut at EXPERT_MAX_HISTORY_MESSAGES = 3: it was extended to
\* the assistant message of a block of two tool messages, and the user
\* message of the dropped front was put back.
C34_Witness ==
    /\ new_messages # <<>>
    /\ environ.EXPERT_MAX_HISTORY_MESSAGES = 3
    /\ Len(new_messages[1]) = 4
    /\ new_messages[1][1].type = "human"
    /\ new_messages[1][2].type = "ai"
    /\ new_messages[1][2].pos > 2
    /\ new_messages[1][3].type = "tool"
    /\ new_messages[1][4].type = "tool"

(***************************************************************************)
(* Tool-call ids (LangChainLLMAdapter, ChatZhipuAICompat)                  *)
(*                                                                         *)
(* Here a message carries its tool calls (name, args and an optional id)   *)
(* and, for a tool message, the id of the call it answers.  The id         *)
(* f"call_{n}" is the pair <<"call", n>>; an id the provider gave is a     *)
(* pair <<"provider", n>>.                                                 *)
(***************************************************************************)

MaxToolIdMessages == 7

ToolCall(name, args, id) == [name |-> name, args |-> args, id |-> id]

HumanIdMessage ==
    [type |-> "human", tool_calls |-> <<>>, tool_call_id |-> <<>>, name |-> ""]

AIIdMessage(tool_calls) ==
    [type |-> "ai", tool_calls |-> tool_calls, tool_call_id |-> <<>>,
     name |-> ""]

ToolIdMessage(tc) ==
    [type |-> "tool", tool_calls |-> <<>>, tool_call_id |-> tc.id,
     name |-> tc.name]

\* Method 3 of the parser: a JSON object found in the text is added unless
\* a call with the same name and args is already there; its id is the
\* number of calls parsed so far.
RECURSIVE add_unseen(_, _)
add_unseen(tool_calls, objs) ==
    IF objs = <<>> THEN tool_calls
    ELSE LET parsed == Head(objs)
             existing == \E k \in 1..Len(tool_calls) :
                            /\ tool_calls[k].name = parsed.tool
                            /\ tool_calls[k].args = parsed.input
         IN add_unseen(IF existing THEN tool_calls
                       ELSE Append(tool_calls,
                                ToolCall(parsed.tool, parsed.input,
                                         << <<"call", Len(tool_calls)>> >>)),
                       Tail(objs))

\* LangChainLLMAdapter._parse_tool_calls_from_response.  A response is what
\* the three methods find in it: `whole` when the whole text is one tool
\* object, the tool objects of its code blocks, and the tool objects of the
\* rest of the text (the pattern of method 3 finds those of the code blocks
\* again).
_parse_tool_calls_from_response(r) ==
    IF r.whole # <<>>
    THEN <<ToolCall(r.whole[1].tool, r.whole[1].input, << <<"call", 0>> >>)>>
    ELSE add_unseen(
             [k \in 1..Len(r.blocks) |->
                 ToolCall(r.blocks[k].tool, r.blocks[k].input,
                          << <<"call", k - 1>> >>)],
             r.blocks \o r.inline)

\* zhipuai_compat._normalize_tool_calls: a call whose id is not a string is
\* left out; the others become OpenAI-style dicts.
_normalize_tool_calls(tool_calls) ==
    LET kept == SelectSeq(tool_calls, LAMBDA tc : tc.id # <<>>)
    IN [k \in 1..Len(kept) |-> [id |-> kept[k].id, name |-> kept[k].name]]

\* ChatZhipuAICompat._create_message_dicts: a user message is put first
\* when the messages hold none (they hold no system message here); an
\* assistant message is sent with its normalized tool calls, a tool message
\* with its tool_call_id.
_create_message_dicts(msgs) ==
    LET has_human == \E i \in 1..Len(msgs) : msgs[i].type = "human"
        with_human == IF has_human THEN msgs ELSE <<HumanIdMessage>> \o msgs
    IN [i \in 1..Len(with_human) |->
          LET m == with_human[i] IN
          [role |-> CASE m.type = "human" -> "user"
                      [] m.type = "ai" -> "assistant"
                      [] OTHER -> "tool",
           tool_calls |-> IF m.type = "ai"
                          THEN _normalize_tool_calls(m.tool_calls) ELSE <<>>,
           tool_call_id |-> IF m.type = "tool" THEN m.tool_call_id ELSE <<>>]]

ToolObjects ==
    {[tool |-> "read_file", input |-> "a.py"],
     [tool |-> "read_file", input |-> "b.py"],
     [tool |-> "grep", input |-> "a.py"]}

ToolObjectLists ==
    {<<>>} \cup {<<o>> : o \in ToolObjects}
           \cup {<<o1, o2>> : o1 \in ToolObjects, o2 \in ToolObjects}

AdapterResponses ==
    {[whole |-> <<o>>, blocks |-> <<>>, inline |-> <<>>] : o \in ToolObjects}
    \cup {[whole |-> <<>>, blocks |-> b, inline |-> i] :
             b \in ToolObjectLists,
             i \in {<<>>} \cup {<<o>> : o \in ToolObjects}}

\* The history after a response: the first call of the reasoner also
\* records its user message.
with_response(msgs, ai) ==
    IF msgs = <<>> THEN <<HumanIdMessage, ai>> ELSE Append(msgs, ai)

expects_response(msgs) ==
    IF msgs = <<>> THEN TRUE
    ELSE /\ msgs[Len(msgs)].type = "tool"
         /\ Len(msgs) < MaxToolIdMessages

\* LangChainLLMAdapter._agenerate: the tool calls are parsed from the text
\* of the response.
AdapterGenerate ==
    /\ expects_response(messages)
    /\ \E r \in AdapterResponses :
          messages' = with_response(messages,
                          AIIdMessage(_parse_tool_calls_from_response(r)))
    /\ UNCHANGED <<node, tool_bound_calls, finalize_calls, risk_context,
                   analysis_result, runVars, parseVars, poolVars, chunkVars,
                   commentVars, shrinkVars, callVars, environ>>

\* A chat model of the provider answers: its tool calls carry the
\* provider's ids, and one of them may carry none.
ProviderGenerate ==
    /\ expects_response(messages)
    /\ \E objs \in ToolObjectLists \ {<<>>}, missing \in 0..2 :
          /\ missing <= Len(objs)
          /\ messages' = with_response(messages,
                 AIIdMessage(
                    [k \in 1..Len(objs) |->
                        ToolCall(objs[k].tool, objs[k].input,
                                 IF k = missing THEN <<>>
                                 ELSE << <<"provider",
                                           10 * Len(messages) + k>> >>)]))
    /\ UNCHANGED <<node, tool_bound_calls, finalize_calls, risk_context,
                   analysis_result, runVars, parseVars, poolVars, chunkVars,
                   commentVars, shrinkVars, callVars, environ>>

\* The tools node: one tool message per tool call of the last response,
\* carrying the id of the call.
ToolNodeAnswers ==
    /\ messages # <<>>
    /\ messages[Len(messages)].type = "ai"
    /\ messages[Len(messages)].tool_calls # <<>>
    /\ \A k \in 1..Len(messages[Len(messages)].tool_calls) :
          messages[Len(messages)].tool_calls[k].id # <<>>
    /\ Len(messages) + Len(messages[Len(messages)].tool_calls)
          <= MaxToolIdMessages
    /\ messages' = messages \o
          [k \in 1..Len(messages[Len(messages)].tool_calls) |->
              ToolIdMessage(messages[Len(messages)].tool_calls[k])]
    /\ UNCHANGED <<node, tool_bound_calls, finalize_calls, risk_context,
                   analysis_result, runVars, parseVars, poolVars, chunkVars,
                   commentVars, shrinkVars, callVars, environ>>

\* The history is serialized for a request to the provider.
CreateMessageDicts ==
    /\ messages # <<>>
    /\ new_messages # <<[history |-> messages,
                         dicts |-> _create_message_dicts(messages)]>>
    /\ new_messages' = <<[history |-> messages,
                          dicts |-> _create_message_dicts(messages)]>>
    /\ UNCHANGED <<expVars, runVars, parseVars, poolVars, chunkVars,
                   commentVars, callVars, environ>>

InitToolIds ==
    /\ stage = "expert_execution"
    /\ ran = <<>>
    /\ metadata \in {DriverMetadata, [DriverMetadata EXCEPT !.tools = <<>>]}
    /\ config = DefaultConfig
    /\ changed_files = <<>>
    /\ changed_lines = <<>>
    /\ file_analyses = <<>>
    /\ lint_errors = <<>>
    /\ work_list = <<>>
    /\ expert_tasks = <<>>
    /\ expert_results = <<>>
    /\ confirmed_issues = <<>>
    /\ final_report = ""
    /\ environ = DefaultEnviron
    /\ node = "reasoner"
    /\ messages = <<>>
    /\ tool_bound_calls = 0
    /\ finalize_calls = 0
    /\ risk_context = <<>>
    /\ analysis_result = [returned |-> FALSE, value |-> <<>>]
    /\ ParseIdle
    /\ PoolIdle

NextToolIds ==
    AdapterGenerate \/ ProviderGenerate \/ ToolNodeAnswers
        \/ CreateMessageDicts

SpecToolIds == InitToolIds /\ [][NextToolIds]_vars

\* The tool calls of a history, each as <<message, call>> positions.
tool_call_positions(msgs) ==
    {p \in (1..Len(msgs)) \X (1..2) :
        /\ msgs[p[1]].type = "ai"
        /\ p[2] <= Len(msgs[p[1]].tool_calls)}

RECURSIVE count_tool_calls(_)
count_tool_calls(ms) ==
    IF ms = <<>> THEN 0
    ELSE Len(Head(ms).tool_calls) + count_tool_calls(Tail(ms))

\* C35: every tool call of the history carries an id, no two tool calls of
\* the history carry the same id, the serialized request holds every tool
\* call of the history, and each of its tool messages answers exactly one
\* tool call of the assistant messages before it.
C35_ToolCallIdsUnique ==
    /\ \A p \in tool_call_positions(messages) :
          messages[p[1]].tool_calls[p[2]].id # <<>>
    /\ \A p, q \in tool_call_positions(messages) :
          p # q => messages[p[1]].tool_calls[p[2]].id
                      # messages[q[1]].tool_calls[q[2]].id
    /\ new_messages # <<>> =>
          LET h == new_messages[1].history
              d == new_messages[1].dicts
          IN /\ count_tool_calls(d) = count_tool_calls(h)
             /\ \A j \in 1..Len(d) :
                   d[j].role = "tool" =>
                      Cardinality(
                         {p \in (1..(j - 1)) \X (1..2) :
                             /\ d[p[1]].role = "assistant"
                             /\ p[2] <= Len(d[p[1]].tool_calls)
                             /\ <<d[p[1]].tool_calls[p[2]].id>>
                                   = <<d[j].tool_call_id>>}) = 1

-----------------------------------------------------------------------------
(* The tool results of a turn (_process_risk_item, `if tool_calls:`)       *)
(*                                                                         *)
(* Here `messages` is conversation_history, one record per turn with the   *)
(* tool calls of its response, and `new_messages` holds current_prompt by  *)
(* its "Tool Results" section.                                              *)

MaxToolTurns == 2

\* The tools of tool_dict.
AvailableTools == tool_dict(metadata)

\* tool_dict[tool_name].run(**tool_input): the tool's result, or the error
\* result the except clause puts in its place.
run_tool(tool_name, tool_input) ==
    IF tool_input = "missing.py"
    THEN [error |-> TRUE, tool |-> tool_name, input |-> tool_input]
    ELSE [error |-> FALSE, tool |-> tool_name, input |-> tool_input]

\* tool_results_summary[tool_name] = result: a dict keeps one value per
\* key, at the position of the key's first insertion.
set_item(d, key, value) ==
    IF \E k \in 1..Len(d) : d[k].key = key
    THEN [k \in 1..Len(d) |->
             IF d[k].key = key THEN [key |-> key, value |-> value] ELSE d[k]]
    ELSE Append(d, [key |-> key, value |-> value])

RECURSIVE tool_results_summary(_)
\* The loop over the tool calls of a response: a call of a tool that is in
\* tool_dict is run and its result stored under the tool's name; a call of
\* any other name is passed over.
tool_results_summary(tool_calls) ==
    IF tool_calls = <<>> THEN <<>>
    ELSE LET n == Len(tool_calls)
             tool_call == tool_calls[n]
             before == tool_results_summary(SubSeq(tool_calls, 1, n - 1))
         IN IF tool_call.tool \in AvailableTools
            THEN set_item(before, tool_call.tool,
                          run_tool(tool_call.tool, tool_call.input))
            ELSE before

TurnToolCalls ==
    {[tool |-> t, input |-> i] :
        t \in {"read_file", "fetch_repo_map", "run_tests"},
        i \in {"a.py", "missing.py"}}

\* A turn whose response holds tool calls: the tools are run, the next
\* prompt is built with their results, the turn is added to the history.
ToolCallTurn ==
    /\ Len(messages) < MaxToolTurns
    /\ \E tool_calls \in SeqUpTo(TurnToolCalls, 2) \ {<<>>} :
          /\ new_messages' =
                 <<[tool_results |-> tool_results_summary(tool_calls)]>>
          /\ messages' = Append(messages,
                 [iteration |-> Len(messages) + 1, tool_calls |-> tool_calls])
    /\ UNCHANGED <<node, tool_bound_calls, finalize_calls, risk_context,
                   analysis_result, runVars, parseVars, poolVars, chunkVars,
                   commentVars, callVars, environ>>

SpecToolResults == InitToolIds /\ [][ToolCallTurn]_vars

\* C40: the next prompt holds, for every tool call of the turn, an entry
\* under the tool's name; for a call of an available tool the entry of
\* that very call, that is, the result of the tool on the call's input.
C40_EveryToolResultInNextPrompt ==
    new_messages # <<>> =>
        LET tool_calls == messages[Len(messages)].tool_calls
            shown == new_messages[1].tool_results
        IN \A n \in 1..Len(tool_calls) :
              \E k \in 1..Len(shown) :
                 /\ shown[k].key = tool_calls[n].tool
                 /\ tool_calls[n].tool \in AvailableTools
                       => shown[k].value
                             = run_tool(tool_calls[n].tool, tool_calls[n].input)

====
